---- MODULE Spec2Model ----
(***************************************************************************)
(* Scheduling core of sistema-programacao-cursos.                          *)
(*                                                                         *)
(* The schedule store (src/src/schedules.py) keeps the offerings of        *)
(* schedules.json; every operation loads the whole collection, works on    *)
(* the in-memory copy and rewrites the whole file (src/src/storage.py).    *)
(* The end-date calculator lives in the route layer (src/app/main.py).     *)
(*                                                                         *)
(* Representation of the Python values:                                    *)
(*   - a string field is a TLA+ string; a key that is not in the dict is   *)
(*     the value Absent, the empty string is "";                           *)
(*   - a date text "DD/MM/YYYY" is a record [kind, d, m, y, pad]: pad      *)
(*     tells whether day and month are written with two digits; a parsed   *)
(*     date is the tuple <<y, m, d>>;                                      *)
(*   - a time text "HH:MM" is a record [kind, h, mi]; a parsed time is the *)
(*     number of minutes since midnight;                                   *)
(*   - an offering id is a record [seq, year, width, raw]: width > 0 is    *)
(*     the text "<seq written with width digits>/<year>", width = 0 is the *)
(*     text raw, which does not match the id pattern;                      *)
(*   - hours are counted in minutes (all times of the model are multiples  *)
(*     of 30 minutes, for which Python's float arithmetic is exact).       *)
(***************************************************************************)
EXTENDS Integers, Sequences, FiniteSets, TLC

VARIABLES
    items,        \* schedules.json: the persisted list of offerings
    instructors,  \* instructors.json: the collaborators
    avail,        \* instructor_availability.json: the availability records
    last,         \* the last call of the sequential client and its outcome
    pc,           \* concurrent writers: position of each writer
    mem,          \* concurrent writers: each writer's loaded copy of items
    req,          \* concurrent writers: each writer's payload
    res,          \* concurrent writers: each writer's outcome
    log,          \* concurrent writers: order of the load/save events
    calc          \* end-date calculator: inputs and result of the last run

vars == <<items, instructors, avail, last, pc, mem, req, res, log, calc>>

-----------------------------------------------------------------------------
(* Bounds of the model *)

\* persisted offerings considered at once
MaxItems == 2

\* existing offerings handed to a single run of the conflict validator
MaxExisting == 2

\* highest sequence number of an offering id
MaxSeq == 3

-----------------------------------------------------------------------------
(* Python values *)

Absent == "<absent>"

\* bool(v) of a string field read with dict.get
Truthy(v) == v # Absent /\ v # ""

AbsentDate == [kind |-> "absent", d |-> 0, m |-> 0, y |-> 0, pad |-> FALSE]
BlankDate  == [kind |-> "blank", d |-> 0, m |-> 0, y |-> 0, pad |-> FALSE]
DateText(d, m, y) == [kind |-> "text", d |-> d, m |-> m, y |-> y, pad |-> TRUE]
DateTextUnpadded(d, m, y) == [kind |-> "text", d |-> d, m |-> m, y |-> y, pad |-> FALSE]

AbsentTime == [kind |-> "absent", h |-> 0, mi |-> 0]
BlankTime  == [kind |-> "blank", h |-> 0, mi |-> 0]
TimeText(h, mi) == [kind |-> "text", h |-> h, mi |-> mi]

TruthyText(r) == r.kind = "text"

OfferId(seq, year, width) == [seq |-> seq, year |-> year, width |-> width, raw |-> ""]
RawId(s) == [seq |-> 0, year |-> 0, width |-> 0, raw |-> s]
AbsentId == RawId(Absent)
TruthyId(i) == i.width > 0 \/ Truthy(i.raw)

Range(s) == {s[i] : i \in DOMAIN s}

\* str.strip() on the texts of the model: " I1 " is the one written with blanks
Strip(s) == IF s = " I1 " THEN "I1" ELSE IF s = " " THEN "" ELSE s

\* str.upper() on the texts of the model: the ones with lower-case letters
Upper(s) ==
    IF s = "turno1" THEN "TURNO1"
    ELSE IF s = "seg" THEN "SEG"
    ELSE s

\* the Saturday token written with A-acute (U+00C1), and its mis-encoded form
SabAcute == "S{A-acute}B"
SabMojibake == "S{A-tilde}{U+0081}B"

\* str.replace(A-acute, "A")
ReplaceAcute(s) == IF s = SabAcute THEN "SAB" ELSE s

OK == "ok"

-----------------------------------------------------------------------------
(* Calendar arithmetic of datetime.date *)

\* date.toordinal(): days since 31/12/0000 of the parsed date <<y, m, d>>
DaysBeforeYear(year) ==
    (year - 1) * 365 + ((year - 1) \div 4) - ((year - 1) \div 100) + ((year - 1) \div 400)

IsLeap(y) == (y % 4 = 0 /\ y % 100 # 0) \/ y % 400 = 0

_month_last_day(year, month) ==
    IF month \in {4, 6, 9, 11} THEN 30
    ELSE IF month = 2 THEN (IF IsLeap(year) THEN 29 ELSE 28)
    ELSE 31

RECURSIVE DaysBeforeMonth(_, _)
DaysBeforeMonth(year, month) ==
    IF month <= 1 THEN 0
    ELSE DaysBeforeMonth(year, month - 1) + _month_last_day(year, month - 1)

Ordinal(dt) == DaysBeforeYear(dt[1]) + DaysBeforeMonth(dt[1], dt[2]) + dt[3]

\* a variant that numbers the weekdays from Sunday
Weekday_from_sunday(dt) == Ordinal(dt) % 7

\* date.weekday(): Monday is 0
Weekday(dt) == (Ordinal(dt) + 6) % 7

DateLE(a, b) == Ordinal(a) <= Ordinal(b)
DateLT(a, b) == Ordinal(a) < Ordinal(b)
DateMax(a, b) == IF DateLE(a, b) THEN b ELSE a
DateMin(a, b) == IF DateLE(a, b) THEN a ELSE b

-----------------------------------------------------------------------------
(* Parsing and formatting of dates and times *)

\* datetime.strptime(raw, "%d/%m/%Y") accepts the text
DateParses(raw) ==
    /\ raw.kind = "text"
    /\ raw.y \in 1..9999
    /\ raw.m \in 1..12
    /\ raw.d \in 1.._month_last_day(raw.y, raw.m)

\* the date of a text that parses
_parse_date(raw) == <<raw.y, raw.m, raw.d>>

\* date.strftime("%d/%m/%Y")
StrfDate(dt) == [kind |-> "text", d |-> dt[3], m |-> dt[2], y |-> dt[1], pad |-> TRUE]

\* datetime.strptime(raw, "%H:%M") accepts the text
TimeParses(raw) == raw.kind = "text" /\ raw.h \in 0..23 /\ raw.mi \in 0..59

\* the time of a text that parses, in minutes since midnight
_parse_time(raw) == raw.h * 60 + raw.mi

_date_ranges_overlap_one_sided(start_a, end_a, start_b, end_b) ==
    DateLE(start_a, end_b)

_date_ranges_overlap_strict(start_a, end_a, start_b, end_b) ==
    DateLT(start_a, end_b) /\ DateLT(start_b, end_a)

_date_ranges_overlap(start_a, end_a, start_b, end_b) ==
    DateLE(start_a, end_b) /\ DateLE(start_b, end_a)

_times_overlap_inclusive(start_a, end_a, start_b, end_b) ==
    start_a <= end_b /\ start_b <= end_a

_times_overlap(start_a, end_a, start_b, end_b) ==
    start_a < end_b /\ start_b < end_a

-----------------------------------------------------------------------------
(* storage.py *)

\* find_item: the first item with that id, as a sequence of zero or one item
find_item(list, item_id) ==
    LET hits == {i \in DOMAIN list : list[i].id = item_id}
    IN  IF hits = {} THEN <<>>
        ELSE <<list[CHOOSE i \in hits : \A j \in hits : i <= j]>>

\* a variant that accepts every id
ensure_unique_id_unchecked(list, item_id) == TRUE

\* ensure_unique_id does not raise
ensure_unique_id(list, item_id) == \A i \in DOMAIN list : list[i].id # item_id

\* the names of the required fields that are missing or falsy
MissingFields(p) ==
    {f \in {"ano"} : p.ano <= 0}
    \cup {f \in {"id"} : ~TruthyId(p.id)}
    \cup {f \in {"mes", "curso_id", "instrutor_id", "analista_id", "sala_id",
                 "pavimento", "qtd_alunos", "turno_id", "ch_total", "turma"} :
             ~Truthy(p[f])}
    \cup {f \in {"data_inicio", "data_fim", "hora_inicio", "hora_fim"} :
             ~TruthyText(p[f])}
    \cup {f \in {"dias_execucao"} : p.dias_execucao = <<>>}

\* require_fields(payload, REQUIRED_FIELDS) does not raise
require_fields(p) == MissingFields(p) = {}

-----------------------------------------------------------------------------
(* Reference registries: courses.json, rooms.json, shifts.json are fixed *)

COURSES == {"C1"}
ROOMS == {"R1", "R2"}
SHIFTS == {"T2", "turno1"}

\* the instructor ids of an offering
_get_instructor_ids(p) ==
    LET stripped == [i \in DOMAIN p.instrutor_ids |-> Strip(p.instrutor_ids[i])]
        cleaned == SelectSeq(stripped, LAMBDA v : Truthy(v))
    IN  IF cleaned # <<>> THEN cleaned
        ELSE IF Truthy(Strip(p.instrutor_id)) THEN <<Strip(p.instrutor_id)>> ELSE <<>>

\* a variant that accepts a collaborator of any role
_ensure_instructor_of_any_role(instructor_id, role) ==
    IF find_item(instructors, instructor_id) = <<>> THEN "not_found" ELSE OK

\* _ensure_instructor: OK or the error raised
_ensure_instructor(instructor_id, role) ==
    LET found == find_item(instructors, instructor_id)
    IN  IF found = <<>> THEN "not_found"
        ELSE IF found[1].role # role THEN "role"
        ELSE OK

RECURSIVE FirstInstructorError(_, _)
FirstInstructorError(ids, role) ==
    IF ids = <<>> THEN OK
    ELSE LET e == _ensure_instructor(Head(ids), role)
         IN  IF e # OK THEN e ELSE FirstInstructorError(Tail(ids), role)

\* _validate_references: OK or the error raised
_validate_references(p) ==
    LET e_instructors == FirstInstructorError(_get_instructor_ids(p), "Instrutor")
        e_analista == _ensure_instructor(p.analista_id, "Analista")
        assistente_id == Strip(p.assistente_id)
        e_assistente == _ensure_instructor(assistente_id, "Assistente")
    IN  IF p.curso_id \notin COURSES THEN "not_found"
        ELSE IF e_instructors # OK THEN e_instructors
        ELSE IF e_analista # OK THEN e_analista
        ELSE IF Truthy(assistente_id) /\ e_assistente # OK THEN e_assistente
        ELSE IF p.sala_id \notin ROOMS THEN "not_found"
        ELSE IF p.turno_id \notin SHIFTS THEN "not_found"
        ELSE OK

-----------------------------------------------------------------------------
(* Normalisation of a payload *)

RECURSIVE Dedupe(_, _)
\* the truthy stripped ids of raw, in order, each once, after those of acc
Dedupe(raw, acc) ==
    IF raw = <<>> THEN acc
    ELSE LET instructor_id == Strip(Head(raw))
         IN  IF Truthy(instructor_id) /\ instructor_id \notin Range(acc)
             THEN Dedupe(Tail(raw), Append(acc, instructor_id))
             ELSE Dedupe(Tail(raw), acc)

\* a variant that moves the declared primary to the front
_normalize_instructors_primary_first(p) ==
    LET cleaned0 == Dedupe(p.instrutor_ids, <<>>)
        primary == Strip(p.instrutor_id)
        cleaned == IF Truthy(primary)
                   THEN <<primary>> \o SelectSeq(cleaned0, LAMBDA v : v # primary)
                   ELSE cleaned0
    IN  IF cleaned # <<>>
        THEN [p EXCEPT !.instrutor_ids = cleaned, !.instrutor_id = cleaned[1]]
        ELSE p

_normalize_instructors(p) ==
    LET cleaned0 == Dedupe(p.instrutor_ids, <<>>)
        primary == Strip(p.instrutor_id)
        cleaned == IF Truthy(primary) /\ primary \notin Range(cleaned0)
                   THEN <<primary>> \o cleaned0
                   ELSE cleaned0
    IN  IF cleaned # <<>>
        THEN [p EXCEPT !.instrutor_ids = cleaned, !.instrutor_id = cleaned[1]]
        ELSE p

\* _normalize_dates: "KeyError" when a date key is absent, "date" when a text
\* does not parse, else OK
NormalizeDatesError(p) ==
    IF p.data_inicio.kind = "absent" THEN "KeyError"
    ELSE IF ~DateParses(p.data_inicio) THEN "date"
    ELSE IF p.data_fim.kind = "absent" THEN "KeyError"
    ELSE IF ~DateParses(p.data_fim) THEN "date"
    ELSE OK

\* the payload after _normalize_dates, when it does not raise
_normalize_dates(p) ==
    [p EXCEPT !.data_inicio = StrfDate(_parse_date(p.data_inicio)),
              !.data_fim = StrfDate(_parse_date(p.data_fim))]

-----------------------------------------------------------------------------
(* Dates, times and class-group label *)

\* _duration_hours raises
DurationError(start_raw, end_raw) ==
    \/ ~TimeParses(start_raw)
    \/ ~TimeParses(end_raw)
    \/ _parse_time(end_raw) <= _parse_time(start_raw)

\* _duration_hours, in minutes
_duration_hours(start_raw, end_raw) == _parse_time(end_raw) - _parse_time(start_raw)

\* re.fullmatch(r"\d{4}\.\d{2}\.\d{3}", turma) on the labels of the model
TurmaMatches(turma) == turma \in {"0001.28.001", "0002.28.001"}

\* _validate_dates_and_times: OK or the error raised
_validate_dates_and_times(p) ==
    IF ~DateParses(p.data_inicio) \/ ~DateParses(p.data_fim) THEN "date"
    ELSE IF p.dias_execucao = <<>> THEN "days"
    ELSE IF p.hora_inicio.kind = "absent" \/ p.hora_fim.kind = "absent" THEN "KeyError"
    ELSE IF DurationError(p.hora_inicio, p.hora_fim) THEN "time"
    ELSE IF ~Truthy(p.turma) THEN "turma"
    ELSE IF ~TurmaMatches(p.turma) THEN "turma"
    ELSE OK

-----------------------------------------------------------------------------
(* Workload validator *)

\* weekly minutes of an offering: daily duration times number of weekday tokens
WeeklyMinutes(p) == _duration_hours(p.hora_inicio, p.hora_fim) * Len(p.dias_execucao)

\* a variant that counts the offerings of every instructor
CountedFor_any_instructor(existing, instructor_id) ==
    {i \in DOMAIN existing :
        /\ TruthyText(existing[i].hora_inicio)
        /\ TruthyText(existing[i].hora_fim)}

\* the existing offerings counted for an instructor: those listing the instructor
\* whose two times are set
CountedFor(existing, instructor_id) ==
    {i \in DOMAIN existing :
        /\ instructor_id \in Range(_get_instructor_ids(existing[i]))
        /\ TruthyText(existing[i].hora_inicio)
        /\ TruthyText(existing[i].hora_fim)}

RECURSIVE SumWeekly(_, _)
SumWeekly(existing, idx) ==
    IF idx = {} THEN 0
    ELSE LET i == CHOOSE j \in idx : TRUE
         IN  WeeklyMinutes(existing[i]) + SumWeekly(existing, idx \ {i})

\* a variant that counts only the offerings whose dates overlap the candidate's
WorkloadTotal_of_overlapping_dates(existing, p, instructor_id) ==
    WeeklyMinutes(p)
    + SumWeekly(existing,
                {i \in CountedFor(existing, instructor_id) :
                    _date_ranges_overlap(_parse_date(existing[i].data_inicio),
                                         _parse_date(existing[i].data_fim),
                                         _parse_date(p.data_inicio), _parse_date(p.data_fim))})

\* total of the instructor with the candidate, in minutes
WorkloadTotal(existing, p, instructor_id) ==
    WeeklyMinutes(p) + SumWeekly(existing, CountedFor(existing, instructor_id))

\* a variant that forgets the candidate's own hours
InstructorWorkloadError_without_candidate(existing, p, instructor_id) ==
    LET found == find_item(instructors, instructor_id)
    IN  IF found = <<>> THEN "not_found"
        ELSE IF found[1].max_horas_semana = <<>> THEN OK
        ELSE IF \E i \in CountedFor(existing, instructor_id) :
                    DurationError(existing[i].hora_inicio, existing[i].hora_fim)
             THEN "time"
        ELSE IF SumWeekly(existing, CountedFor(existing, instructor_id))
                    > 60 * found[1].max_horas_semana[1]
             THEN "workload"
        ELSE OK

\* the check of one instructor: OK or the error raised
InstructorWorkloadError(existing, p, instructor_id) ==
    LET found == find_item(instructors, instructor_id)
    IN  IF found = <<>> THEN "not_found"
        ELSE IF found[1].max_horas_semana = <<>> THEN OK
        ELSE IF \E i \in CountedFor(existing, instructor_id) :
                    DurationError(existing[i].hora_inicio, existing[i].hora_fim)
             THEN "time"
        ELSE IF WorkloadTotal(existing, p, instructor_id) > 60 * found[1].max_horas_semana[1]
             THEN "workload"
        ELSE OK

RECURSIVE FirstWorkloadError(_, _, _)
FirstWorkloadError(existing, p, ids) ==
    IF ids = <<>> THEN OK
    ELSE LET e == InstructorWorkloadError(existing, p, Head(ids))
         IN  IF e # OK THEN e ELSE FirstWorkloadError(existing, p, Tail(ids))

\* _validate_instructor_workload: OK or the error raised
_validate_instructor_workload(existing, p) ==
    IF DurationError(p.hora_inicio, p.hora_fim) THEN "time"
    ELSE FirstWorkloadError(existing, p, _get_instructor_ids(p))

-----------------------------------------------------------------------------
(* Availability validator *)

CanonicalDays == {"SEG", "TER", "QUA", "QUI", "SEX", "SAB"}

_canonical_weekday(raw) ==
    LET token == ReplaceAcute(Upper(Strip(raw)))
    IN  IF token \in CanonicalDays THEN token ELSE ""

\* index of a canonical weekday, -1 for None
_weekday_to_index(raw) ==
    LET c == _canonical_weekday(raw)
    IN  CASE c = "SEG" -> 0 [] c = "TER" -> 1 [] c = "QUA" -> 2
          [] c = "QUI" -> 3 [] c = "SEX" -> 4 [] c = "SAB" -> 5 [] OTHER -> -1

\* the first day of the month after (y, m)
NextMonthStart(y, m) == IF m = 12 THEN <<y + 1, 1, 1>> ELSE <<y, m + 1, 1>>

RECURSIVE MonthRangesFrom(_, _, _)
MonthRangesFrom(cursor, start_day, end_day) ==
    IF ~DateLE(cursor, end_day) THEN <<>>
    ELSE LET y == cursor[1]
             m == cursor[2]
             m_start == <<y, m, 1>>
             m_end == <<y, m, _month_last_day(y, m)>>
         IN  <<[year |-> y, month |-> m,
                window_start |-> DateMax(start_day, m_start),
                window_end |-> DateMin(end_day, m_end)]>>
             \o MonthRangesFrom(NextMonthStart(y, m), start_day, end_day)

_month_ranges_between(start_day, end_day) ==
    MonthRangesFrom(<<start_day[1], start_day[2], 1>>, start_day, end_day)

_has_weekday_between(start_day, end_day, weekday_idx) ==
    IF DateLT(end_day, start_day) THEN FALSE
    ELSE LET offset == (weekday_idx - Weekday(start_day)) % 7
         IN  Ordinal(start_day) + offset <= Ordinal(end_day)

_availability_candidates_for_month(year, month) ==
    <<[type |-> "month", value |-> ToString(month)],
      [type |-> "quarter", value |-> ToString(((month - 1) \div 3) + 1)],
      [type |-> "semester", value |-> ToString(IF month <= 6 THEN 1 ELSE 2)],
      [type |-> "year", value |-> "A"]>>

build_record_id(instructor_id, year, period_type, period_value) ==
    Strip(instructor_id) \o "|" \o ToString(year) \o "|" \o period_type \o "|" \o period_value

\* get_by_context: the first record with that id, as a sequence of zero or one
get_by_context(instructor_id, year, period_type, period_value) ==
    find_item(avail, build_record_id(instructor_id, year, period_type, period_value))

RECURSIVE FirstRecordAmong(_, _, _)
FirstRecordAmong(instructor_id, year, candidates) ==
    IF candidates = <<>> THEN <<>>
    ELSE LET record == get_by_context(instructor_id, year,
                                      Head(candidates).type, Head(candidates).value)
         IN  IF record # <<>> THEN record
             ELSE FirstRecordAmong(instructor_id, year, Tail(candidates))

\* a variant that takes any record of the instructor and year, whatever its period
_first_availability_record_of_any_period(instructor_id, year, month) ==
    LET hits == {i \in DOMAIN avail :
                    avail[i].instructor_id = instructor_id /\ avail[i].year = year}
    IN  IF hits = {} THEN <<>>
        ELSE <<avail[CHOOSE i \in hits : \A j \in hits : i <= j]>>

_first_availability_record(instructor_id, year, month) ==
    FirstRecordAmong(instructor_id, year, _availability_candidates_for_month(year, month))

\* a slot text "day|shift" is the record [day, shift]
Slot(day, shift) == [day |-> day, shift |-> shift]

\* the stored slots as the validator reads them: stripped, upper-cased, A-acute replaced
NormalizedSlots(record) ==
    {Slot(ReplaceAcute(Upper(s.day)), ReplaceAcute(Upper(s.shift))) : s \in Range(record.slots)}

\* the canonical selected weekdays, in order, invalid tokens dropped
SelectedWeekdays(p) ==
    SelectSeq([i \in DOMAIN p.dias_execucao |-> _canonical_weekday(p.dias_execucao[i])],
              LAMBDA day : day # "")

RequiredSlots(p) == {Slot(day, Strip(p.turno_id)) : day \in Range(SelectedWeekdays(p))}

\* the required slots the record lacks
MissingSlots(p, record) ==
    {slot \in RequiredSlots(p) :
        Slot(ReplaceAcute(slot.day), ReplaceAcute(slot.shift)) \notin NormalizedSlots(record)}

\* a variant that takes every spanned month as a month with a class day
HasExecutionDay_in_every_month(p, range) == TRUE

\* the month range holds a day of a selected weekday
HasExecutionDay(p, range) ==
    \E day \in Range(SelectedWeekdays(p)) :
        /\ _weekday_to_index(day) # -1
        /\ _has_weekday_between(range.window_start, range.window_end, _weekday_to_index(day))

\* the (instructor, month range) pairs in the order the validator visits them
AvailabilityVisits(p) ==
    LET ids == _get_instructor_ids(p)
        ranges == _month_ranges_between(_parse_date(p.data_inicio), _parse_date(p.data_fim))
    IN  [k \in 1..(Len(ids) * Len(ranges)) |->
            [instructor_id |-> ids[((k - 1) \div Len(ranges)) + 1],
             range |-> ranges[((k - 1) % Len(ranges)) + 1]]]

\* the visit is rejected: a record is found and lacks a required slot
VisitFails(p, visit) ==
    /\ HasExecutionDay(p, visit.range)
    /\ LET record == _first_availability_record(visit.instructor_id,
                                                visit.range.year, visit.range.month)
       IN  record # <<>> /\ MissingSlots(p, record[1]) # {}

\* the visits that are rejected
FailingVisits(p) ==
    IF DateLT(_parse_date(p.data_fim), _parse_date(p.data_inicio)) THEN {}
    ELSE IF ~Truthy(Strip(p.turno_id)) THEN {}
    ELSE IF SelectedWeekdays(p) = <<>> THEN {}
    ELSE LET visits == AvailabilityVisits(p)
         IN  {k \in DOMAIN visits : VisitFails(p, visits[k])}

\* the visit at which the validator raises
FirstFailingVisit(p) ==
    LET failing == FailingVisits(p)
    IN  AvailabilityVisits(p)[CHOOSE k \in failing : \A j \in failing : k <= j]

\* lines 331-335: what the message of the error names, the month and year of
\* the visit and the required slots found missing
AvailabilityMessage(p) ==
    LET visit == FirstFailingVisit(p)
        record == _first_availability_record(visit.instructor_id,
                                             visit.range.year, visit.range.month)
    IN  [month |-> visit.range.month, year |-> visit.range.year,
         missing |-> MissingSlots(p, record[1])]

\* _validate_instructor_availability: OK or the error raised
_validate_instructor_availability(p) ==
    IF FailingVisits(p) = {} THEN OK ELSE "availability"

-----------------------------------------------------------------------------
(* Conflict validator *)

\* the weekday tokens of the two offerings allow a common day: the scan skips
\* the item only when both sets are non-empty and disjoint
DaysMayMeet(item, p) ==
    ~(/\ p.dias_execucao # <<>>
      /\ item.dias_execucao # <<>>
      /\ Range(p.dias_execucao) \cap Range(item.dias_execucao) = {})

\* a variant of the scan that tests the room only
ScanItem_room_only(item, p) ==
    IF ~TruthyText(item.data_inicio) \/ ~TruthyText(item.data_fim) THEN OK
    ELSE IF ~DateParses(item.data_inicio) \/ ~DateParses(item.data_fim) THEN "date"
    ELSE IF ~_date_ranges_overlap(_parse_date(p.data_inicio), _parse_date(p.data_fim),
                                  _parse_date(item.data_inicio), _parse_date(item.data_fim))
         THEN OK
    ELSE IF ~DaysMayMeet(item, p) THEN OK
    ELSE IF TruthyText(item.hora_inicio) /\ TruthyText(item.hora_fim)
            /\ (~TimeParses(item.hora_inicio) \/ ~TimeParses(item.hora_fim))
         THEN "time"
    ELSE IF TruthyText(item.hora_inicio) /\ TruthyText(item.hora_fim)
            /\ ~_times_overlap(_parse_time(p.hora_inicio), _parse_time(p.hora_fim),
                               _parse_time(item.hora_inicio), _parse_time(item.hora_fim))
         THEN OK
    ELSE IF p.sala_id = Absent THEN "KeyError"
    ELSE IF item.sala_id = p.sala_id THEN "room"
    ELSE OK

\* one turn of the loop over the existing offerings: OK when the item is passed,
\* else the error raised
ScanItem(item, p) ==
    IF ~TruthyText(item.data_inicio) \/ ~TruthyText(item.data_fim) THEN OK
    ELSE IF ~DateParses(item.data_inicio) \/ ~DateParses(item.data_fim) THEN "date"
    ELSE IF ~_date_ranges_overlap(_parse_date(p.data_inicio), _parse_date(p.data_fim),
                                  _parse_date(item.data_inicio), _parse_date(item.data_fim))
         THEN OK
    ELSE IF ~DaysMayMeet(item, p) THEN OK
    ELSE IF TruthyText(item.hora_inicio) /\ TruthyText(item.hora_fim)
            /\ (~TimeParses(item.hora_inicio) \/ ~TimeParses(item.hora_fim))
         THEN "time"
    ELSE IF TruthyText(item.hora_inicio) /\ TruthyText(item.hora_fim)
            /\ ~_times_overlap(_parse_time(p.hora_inicio), _parse_time(p.hora_fim),
                               _parse_time(item.hora_inicio), _parse_time(item.hora_fim))
         THEN OK
    ELSE IF p.sala_id = Absent THEN "KeyError"
    ELSE IF item.sala_id = p.sala_id THEN "room"
    ELSE IF Range(_get_instructor_ids(p)) \cap Range(_get_instructor_ids(item)) # {}
         THEN "instructor"
    ELSE OK

\* the indexes of the existing offerings at which the scan raises
RaisingItems(existing, p) == {i \in DOMAIN existing : ScanItem(existing[i], p) # OK}

\* the loop over the existing offerings: OK or the first error raised
ScanExisting(existing, p) ==
    LET raising == RaisingItems(existing, p)
    IN  IF raising = {} THEN OK
        ELSE ScanItem(existing[CHOOSE i \in raising : \A j \in raising : i <= j], p)

\* the place in the collection of the offering at which the scan raises, 0 for none
RaisedAt(existing, p) ==
    LET raising == RaisingItems(existing, p)
    IN  IF raising = {} THEN 0 ELSE CHOOSE i \in raising : \A j \in raising : i <= j

\* _validate_conflicts: OK or the error raised
_validate_conflicts(existing, p) ==
    IF p.data_inicio.kind = "absent" \/ p.data_fim.kind = "absent" THEN "KeyError"
    ELSE IF ~DateParses(p.data_inicio) \/ ~DateParses(p.data_fim) THEN "date"
    ELSE IF DateLT(_parse_date(p.data_fim), _parse_date(p.data_inicio)) THEN "date_order"
    ELSE LET e_times == _validate_dates_and_times(p)
             e_availability == _validate_instructor_availability(p)
             e_workload == _validate_instructor_workload(existing, p)
         IN  IF e_times # OK THEN e_times
             ELSE IF e_availability # OK THEN e_availability
             ELSE IF e_workload # OK THEN e_workload
             ELSE ScanExisting(existing, p)

\* the exception class of an outcome
ErrorKind(e) ==
    IF e = OK THEN "ok" ELSE IF e = "KeyError" THEN "KeyError" ELSE "ValidationError"

-----------------------------------------------------------------------------
(* Offering ids *)

\* datetime.now().year, read when the payload gives no usable year
NowYear == 2026

_resolve_year(raw) == IF raw > 0 THEN raw ELSE NowYear

\* number of decimal digits of a positive number
RECURSIVE Digits(_)
Digits(n) == IF n < 10 THEN 1 ELSE 1 + Digits(n \div 10)

\* a variant that takes the sequence numbers of every year
SeqsOfYear_of_any_year(list, year) ==
    {list[i].id.seq : i \in {j \in DOMAIN list : list[j].id.width > 0}}

\* the sequence numbers of the ids "<digits>/<year>" of that year
SeqsOfYear(list, year) ==
    {list[i].id.seq : i \in {j \in DOMAIN list : list[j].id.width > 0 /\ list[j].id.year = year}}

SetMax(S) == IF S = {} THEN 0 ELSE CHOOSE x \in S : \A y \in S : y <= x

\* a variant that numbers by the count of the offerings of the year
_next_offer_id_counting_offerings(list, year) ==
    LET next_seq == Cardinality({i \in DOMAIN list : list[i].id.width > 0 /\ list[i].id.year = year}) + 1
    IN  OfferId(next_seq, year, IF next_seq < 100 THEN 2 ELSE Digits(next_seq))

_next_offer_id(list, year) ==
    LET next_seq == SetMax(SeqsOfYear(list, year)) + 1
    IN  OfferId(next_seq, year, IF next_seq < 100 THEN 2 ELSE Digits(next_seq))

-----------------------------------------------------------------------------
(* Schedule store: the three operations on a loaded copy of the collection *)

\* create_schedule, lines 53-56: the payload with its id and normalised
\* instructors, and with normalised dates when both parse
CreatePrepared(list, payload) ==
    LET with_id == IF TruthyId(payload.id) THEN payload
                   ELSE [payload EXCEPT !.id = _next_offer_id(list, _resolve_year(payload.ano))]
        with_instructors == _normalize_instructors(with_id)
    IN  IF NormalizeDatesError(with_instructors) = OK
        THEN _normalize_dates(with_instructors)
        ELSE with_instructors

\* create_schedule: OK or the error raised
CreateError(list, payload) ==
    LET p == CreatePrepared(list, payload)
        e_dates == NormalizeDatesError(p)
        e_references == _validate_references(p)
    IN  IF e_dates # OK THEN e_dates
        ELSE IF ~require_fields(p) THEN "required"
        ELSE IF ~ensure_unique_id(list, p.id) THEN "duplicate_id"
        ELSE IF e_references # OK THEN e_references
        ELSE _validate_conflicts(list, p)

\* create_schedule: the list handed to save_items
CreateSaved(list, payload) == Append(list, CreatePrepared(list, payload))

\* dict.update: updates is a function from some field names to their new values
Merge(schedule, updates) ==
    [f \in DOMAIN schedule |-> IF f \in DOMAIN updates THEN updates[f] ELSE schedule[f]]

\* index of the offering find_item returns, 0 for None
IndexOf(list, schedule_id) ==
    LET hits == {i \in DOMAIN list : list[i].id = schedule_id}
    IN  IF hits = {} THEN 0 ELSE CHOOSE i \in hits : \A j \in hits : i <= j

\* update_schedule, lines 75-77: the merged record, normalised
UpdateMerged(list, schedule_id, updates) ==
    LET merged == _normalize_instructors(Merge(list[IndexOf(list, schedule_id)], updates))
    IN  IF NormalizeDatesError(merged) = OK THEN _normalize_dates(merged) ELSE merged

\* a variant that keeps only the changed record
UpdateInPlace_only_changed_record(list, schedule_id, updates) ==
    <<UpdateMerged(list, schedule_id, updates)>>

\* update_schedule: the loaded list once the record has been changed in place
UpdateInPlace(list, schedule_id, updates) ==
    [list EXCEPT ![IndexOf(list, schedule_id)] = UpdateMerged(list, schedule_id, updates)]

\* a variant that validates against the whole list
remaining_with_own_record(list, schedule_id, updates) ==
    UpdateInPlace(list, schedule_id, updates)

\* update_schedule, line 81: the records the merged one is validated against
remaining(list, schedule_id, updates) ==
    SelectSeq(UpdateInPlace(list, schedule_id, updates), LAMBDA item : item.id # schedule_id)

\* update_schedule: OK or the error raised
UpdateError(list, schedule_id, updates, validate_schedule) ==
    IF IndexOf(list, schedule_id) = 0 THEN "schedule_not_found"
    ELSE LET schedule == UpdateMerged(list, schedule_id, updates)
             e_dates == NormalizeDatesError(schedule)
             e_references == _validate_references(schedule)
         IN  IF e_dates # OK THEN e_dates
             ELSE IF ~validate_schedule THEN OK
             ELSE IF ~require_fields(schedule) THEN "required"
             ELSE IF e_references # OK THEN e_references
             ELSE _validate_conflicts(remaining(list, schedule_id, updates), schedule)

\* delete_schedule: OK or the error raised
DeleteError(list, schedule_id) ==
    IF IndexOf(list, schedule_id) = 0 THEN "schedule_not_found" ELSE OK

\* a variant that also drops the records that follow the deleted one
DeleteSaved_dropping_the_rest(list, schedule_id) ==
    SubSeq(list, 1, IndexOf(list, schedule_id) - 1)

\* delete_schedule: the list handed to save_items
DeleteSaved(list, schedule_id) ==
    LET k == IndexOf(list, schedule_id)
    IN  SubSeq(list, 1, k - 1) \o SubSeq(list, k + 1, Len(list))

-----------------------------------------------------------------------------
(* The files the store reads, and the calls of the model *)

InstructorsFile ==
    <<[id |-> "I1", role |-> "Instrutor", max_horas_semana |-> <<12>>],
      [id |-> "I2", role |-> "Instrutor", max_horas_semana |-> <<>>],
      [id |-> "A1", role |-> "Analista", max_horas_semana |-> <<>>],
      [id |-> "S1", role |-> "Assistente", max_horas_semana |-> <<>>]>>

AvailabilityRecord(instructor_id, year, period_type, period_value, slots) ==
    [id |-> build_record_id(instructor_id, year, period_type, period_value),
     instructor_id |-> instructor_id, year |-> year,
     period_type |-> period_type, period_value |-> period_value, slots |-> slots]

\* I2 declared Mondays of shift T2 for February 2024; I1 declared nothing
AvailabilityFile ==
    <<AvailabilityRecord("I2", 2024, "month", "2", <<Slot("SEG", "T2")>>)>>

\* a date range, weekday tokens and daily time window
Window(di, df, days, hi, hf) ==
    [data_inicio |-> di, data_fim |-> df, dias_execucao |-> days,
     hora_inicio |-> hi, hora_fim |-> hf]

\* 05/02/2024 and 12/02/2024 are Mondays, 07/02/2024 and 14/02/2024 Wednesdays
Windows ==
    {Window(DateText(5, 2, 2024), DateText(7, 2, 2024), <<"SEG">>, TimeText(8, 0), TimeText(12, 0)),
     Window(DateText(5, 2, 2024), DateText(7, 2, 2024), <<"SEG">>, TimeText(12, 0), TimeText(16, 0)),
     Window(DateText(5, 2, 2024), DateText(7, 2, 2024), <<"QUA">>, TimeText(8, 0), TimeText(12, 0)),
     Window(DateText(12, 2, 2024), DateText(14, 2, 2024), <<"SEG">>, TimeText(8, 0), TimeText(12, 0)),
     Window(DateText(7, 2, 2024), DateText(12, 2, 2024), <<"SEG", "QUA">>, TimeText(8, 0), TimeText(12, 30))}

\* a payload of the create form
Payload(id, sala_id, instrutor_id, instrutor_ids, w) ==
    [id |-> id, ano |-> 2024, mes |-> "2", curso_id |-> "C1",
     instrutor_id |-> instrutor_id, instrutor_ids |-> instrutor_ids,
     analista_id |-> "A1", assistente_id |-> Absent,
     sala_id |-> sala_id, pavimento |-> "Terreo", qtd_alunos |-> "30",
     turno_id |-> "T2", data_inicio |-> w.data_inicio, data_fim |-> w.data_fim,
     ch_total |-> "40", hora_inicio |-> w.hora_inicio, hora_fim |-> w.hora_fim,
     turma |-> "0001.28.001", dias_execucao |-> w.dias_execucao, chronogram |-> Absent]

\* the instructor fields sent: a single id, or a list with its primary
InstructorChoices ==
    {[instrutor_id |-> "I1", instrutor_ids |-> <<>>],
     [instrutor_id |-> "I2", instrutor_ids |-> <<>>]}

\* well-formed payloads without id
CorePayloads ==
    {Payload(AbsentId, r, c.instrutor_id, c.instrutor_ids, w) :
        r \in ROOMS, c \in InstructorChoices, w \in Windows}

BaseWindow ==
    Window(DateText(5, 2, 2024), DateText(7, 2, 2024), <<"SEG">>, TimeText(8, 0), TimeText(12, 0))

BasePayload == Payload(AbsentId, "R2", "I2", <<>>, BaseWindow)

\* payloads with one thing wrong or unusual each
EdgePayloads ==
    {[BasePayload EXCEPT !.id = OfferId(1, 2024, 2)],
     [BasePayload EXCEPT !.mes = Absent],
     [BasePayload EXCEPT !.ano = 0],
     [BasePayload EXCEPT !.curso_id = "C9"],
     [BasePayload EXCEPT !.instrutor_id = "I9"],
     [BasePayload EXCEPT !.instrutor_id = "A1"],
     [BasePayload EXCEPT !.analista_id = "I1"],
     [BasePayload EXCEPT !.assistente_id = "I1"],
     [BasePayload EXCEPT !.sala_id = "R9"],
     [BasePayload EXCEPT !.turno_id = "T9"],
     [BasePayload EXCEPT !.data_inicio = AbsentDate],
     [BasePayload EXCEPT !.data_fim = BlankDate],
     [BasePayload EXCEPT !.data_fim = DateText(31, 2, 2024)],
     [BasePayload EXCEPT !.data_inicio = DateTextUnpadded(5, 2, 2024)],
     [BasePayload EXCEPT !.data_fim = DateText(1, 2, 2024)],
     [BasePayload EXCEPT !.dias_execucao = <<>>],
     [BasePayload EXCEPT !.hora_fim = TimeText(8, 0)],
     [BasePayload EXCEPT !.hora_fim = TimeText(25, 0)],
     [BasePayload EXCEPT !.turma = "001.28.0001"],
     [BasePayload EXCEPT !.instrutor_id = "I1", !.instrutor_ids = <<"I1", "I2">>],
     [BasePayload EXCEPT !.instrutor_id = " I1 ", !.instrutor_ids = <<"I2", " I1 ", "I2">>]}

CreateInputs == CorePayloads \cup EdgePayloads

\* the updates dicts of the model: functions from field names to new values
NoUpdates == [f \in {} |-> Absent]

WindowUpdates == {w : w \in Windows}

UpdateInputs ==
    {NoUpdates}
    \cup WindowUpdates
    \cup {[sala_id |-> r] : r \in ROOMS \cup {"R9"}}
    \cup {[instrutor_id |-> "I2"],
          [instrutor_id |-> "I1", instrutor_ids |-> <<"I1">>],
          [instrutor_id |-> "I2", instrutor_ids |-> <<"I2">>],
          [id |-> RawId("X1")],
          [id |-> OfferId(1, 2024, 2)],
          [id |-> OfferId(2, 2024, 2)],
          [data_fim |-> BlankDate],
          [data_fim |-> DateText(1, 2, 2024)],
          [mes |-> ""]}

\* the ids a client may name: those persisted and one that is not
KnownIds == {items[i].id : i \in DOMAIN items} \cup {RawId("X9")}

NoOffering ==
    [id |-> AbsentId, ano |-> 0, mes |-> Absent, curso_id |-> Absent,
     instrutor_id |-> Absent, instrutor_ids |-> <<>>,
     analista_id |-> Absent, assistente_id |-> Absent,
     sala_id |-> Absent, pavimento |-> Absent, qtd_alunos |-> Absent,
     turno_id |-> Absent, data_inicio |-> AbsentDate, data_fim |-> AbsentDate,
     ch_total |-> Absent, hora_inicio |-> AbsentTime, hora_fim |-> AbsentTime,
     turma |-> Absent, dias_execucao |-> <<>>, chronogram |-> Absent]

NoCall == [op |-> "none", schedule_id |-> AbsentId, cand |-> NoOffering, err |-> OK]

-----------------------------------------------------------------------------
(* Sequential client: one call at a time, each from load_items to save_items; *)
(* the client takes the outcome of a call before it issues the next one       *)

Idle ==
    /\ pc = [w \in {} |-> "idle"]
    /\ mem = [w \in {} |-> <<>>]
    /\ req = [w \in {} |-> NoOffering]
    /\ res = [w \in {} |-> OK]
    /\ log = <<>>
    /\ calc = <<>>

Init ==
    /\ items = <<>>
    /\ instructors = InstructorsFile
    /\ avail = AvailabilityFile
    /\ last = NoCall
    /\ Idle

\* create_schedule(payload)
Create(payload) ==
    /\ last.op = "none"
    /\ LET e == CreateError(items, payload)
           p == CreatePrepared(items, payload)
       IN  /\ p.id.seq <= MaxSeq
           /\ e # OK \/ Len(items) < MaxItems
           /\ items' = IF e = OK THEN Append(items, p) ELSE items
           /\ last' = [op |-> "create", schedule_id |-> AbsentId, cand |-> p, err |-> e]
    /\ UNCHANGED <<instructors, avail, pc, mem, req, res, log, calc>>

\* a variant that writes the merged record back before it is validated
Update_saving_before_validation(schedule_id, updates) ==
    /\ last.op = "none"
    /\ LET e == UpdateError(items, schedule_id, updates, TRUE)
       IN  /\ items' = IF e # "schedule_not_found"
                        THEN UpdateInPlace(items, schedule_id, updates) ELSE items
           /\ last' = [op |-> "update", schedule_id |-> schedule_id,
                       cand |-> IF IndexOf(items, schedule_id) = 0 THEN NoOffering
                                ELSE UpdateMerged(items, schedule_id, updates),
                       err |-> e]
    /\ UNCHANGED <<instructors, avail, pc, mem, req, res, log, calc>>

\* update_schedule(schedule_id, updates), validation enabled
Update(schedule_id, updates) ==
    /\ last.op = "none"
    /\ LET e == UpdateError(items, schedule_id, updates, TRUE)
       IN  /\ items' = IF e = OK THEN UpdateInPlace(items, schedule_id, updates) ELSE items
           /\ last' = [op |-> "update", schedule_id |-> schedule_id,
                       cand |-> IF IndexOf(items, schedule_id) = 0 THEN NoOffering
                                ELSE UpdateMerged(items, schedule_id, updates),
                       err |-> e]
    /\ UNCHANGED <<instructors, avail, pc, mem, req, res, log, calc>>

\* delete_schedule(schedule_id)
Delete(schedule_id) ==
    /\ last.op = "none"
    /\ LET e == DeleteError(items, schedule_id)
       IN  /\ items' = IF e = OK THEN DeleteSaved(items, schedule_id) ELSE items
           /\ last' = [op |-> "delete", schedule_id |-> schedule_id,
                       cand |-> NoOffering, err |-> e]
    /\ UNCHANGED <<instructors, avail, pc, mem, req, res, log, calc>>

\* the client has read the outcome of its call
Return ==
    /\ last.op # "none"
    /\ last' = NoCall
    /\ UNCHANGED <<items, instructors, avail, pc, mem, req, res, log, calc>>

Next ==
    \/ \E payload \in CreateInputs : Create(payload)
    \/ \E schedule_id \in KnownIds, updates \in UpdateInputs : Update(schedule_id, updates)
    \/ \E schedule_id \in KnownIds : Delete(schedule_id)
    \/ Return

Spec == Init /\ [][Next]_vars

-----------------------------------------------------------------------------
(* Single runs of the conflict validator: _validate_conflicts(existing, payload) *)
(* on a collection the store can hold and a candidate of the create form         *)

\* the time window 10:00-14:00, which overlaps both 08:00-12:00 and 12:00-16:00
MiddayWindow ==
    Window(DateText(5, 2, 2024), DateText(7, 2, 2024), <<"SEG">>, TimeText(10, 0), TimeText(14, 0))

ValidatorPayloads ==
    {Payload(AbsentId, r, c.instrutor_id, c.instrutor_ids, w) :
        r \in ROOMS,
        c \in InstructorChoices \cup {[instrutor_id |-> "I1", instrutor_ids |-> <<"I1", "I2">>]},
        w \in Windows \cup {MiddayWindow}}

\* the collections create_schedule builds from the empty one with payloads of S:
\* those of n offerings
RECURSIVE Buildable(_, _)
Buildable(S, n) ==
    IF n = 0 THEN {<<>>}
    ELSE LET shorter == Buildable(S, n - 1)
         IN  {CreateSaved(list, payload) :
                 <<list, payload>> \in {lp \in shorter \X S : CreateError(lp[1], lp[2]) = OK}}

ExistingCollections == UNION {Buildable(ValidatorPayloads, n) : n \in 1..MaxExisting}

InitValidate ==
    /\ instructors = InstructorsFile
    /\ avail = AvailabilityFile
    /\ items \in ExistingCollections
    /\ last = NoCall
    /\ Idle

\* what the non-validating update path is given here: the weekday tokens cleared
UnvalidatedUpdates == {[dias_execucao |-> <<>>]}

\* update_schedule(schedule_id, updates, validate_schedule=False)
UpdateUnvalidated(schedule_id, updates) ==
    /\ last.op = "none"
    /\ log = <<>>
    /\ UpdateError(items, schedule_id, updates, FALSE) = OK
    /\ items' = UpdateInPlace(items, schedule_id, updates)
    /\ UNCHANGED <<instructors, avail, last, pc, mem, req, res, log, calc>>

\* _validate_conflicts(items, candidate) for a candidate with id and normalised fields
ValidateCall(payload) ==
    /\ last.op = "none"
    /\ log = <<>>
    /\ LET p == CreatePrepared(items, payload)
       IN  last' = [op |-> "validate", schedule_id |-> AbsentId, cand |-> p,
                    err |-> _validate_conflicts(items, p)]
    /\ UNCHANGED <<items, instructors, avail, pc, mem, req, res, log, calc>>

\* the list without its k-th offering
Without(list, k) == SelectSeq(list, LAMBDA item : item # list[k])

\* the roles exchanged: the stored offering B = items[k] validated against the
\* collection that holds the candidate A in its place, when create_schedule
\* can have put A there
ValidateSwapped(k) ==
    /\ last.op = "validate"
    /\ log = <<>>
    /\ CreateError(Without(items, k), last.cand) = OK
    /\ LET holding_A == CreateSaved(Without(items, k), last.cand)
       IN  log' = <<[existing |-> holding_A, at |-> k, cand |-> items[k],
                    err |-> _validate_conflicts(holding_A, items[k])]>>
    /\ UNCHANGED <<items, instructors, avail, last, pc, mem, req, res, calc>>

NextValidate ==
    \/ \E schedule_id \in {item.id : item \in Range(items)}, updates \in UnvalidatedUpdates :
           UpdateUnvalidated(schedule_id, updates)
    \/ \E payload \in ValidatorPayloads : ValidateCall(payload)
    \/ \E k \in DOMAIN items : ValidateSwapped(k)

SpecValidate == InitValidate /\ [][NextValidate]_vars

-----------------------------------------------------------------------------
(* Two writers, each in one create_schedule call, interleaved at load_items and *)
(* save_items: storage.py reads the whole file and rewrites the whole file and  *)
(* takes no lock                                                                 *)

Writers == {"w1", "w2"}

Pending == "pending"

InitRace ==
    /\ instructors = InstructorsFile
    /\ avail = AvailabilityFile
    /\ items \in Buildable(CorePayloads, 0) \cup Buildable(CorePayloads, 1)
    /\ last = NoCall
    /\ pc = [w \in Writers |-> "idle"]
    /\ mem = [w \in Writers |-> [read |-> <<>>, write |-> <<>>]]
    /\ req = [w \in Writers |-> NoOffering]
    /\ res = [w \in Writers |-> Pending]
    /\ log = <<>>
    /\ calc = <<>>

\* create_schedule, lines 52-61: load_items and everything the call does on its
\* own copy of the list, up to the append; a failed validation ends the call
Load(w, payload) ==
    /\ pc[w] = "idle"
    /\ LET e == CreateError(items, payload)
       IN  /\ req' = [req EXCEPT ![w] = CreatePrepared(items, payload)]
           /\ mem' = [mem EXCEPT ![w] =
                        [read |-> items,
                         write |-> IF e = OK THEN CreateSaved(items, payload) ELSE items]]
           /\ pc' = [pc EXCEPT ![w] = IF e = OK THEN "loaded" ELSE "done"]
           /\ res' = [res EXCEPT ![w] = IF e = OK THEN Pending ELSE e]
    /\ UNCHANGED <<items, instructors, avail, last, log, calc>>

\* a variant that appends the offering to the file as it stands at the write
Save_appending_to_current(w) ==
    /\ pc[w] = "loaded"
    /\ items' = Append(items, req[w])
    /\ pc' = [pc EXCEPT ![w] = "done"]
    /\ res' = [res EXCEPT ![w] = OK]
    /\ log' = Append(log, w)
    /\ UNCHANGED <<instructors, avail, last, mem, req, calc>>

\* a variant that adds what the writer changed to the file as it stands at the
\* write
Save_merging_with_current(w) ==
    /\ pc[w] = "loaded"
    /\ items' = items \o SelectSeq(mem[w].write, LAMBDA item : item \notin Range(mem[w].read))
    /\ pc' = [pc EXCEPT ![w] = "done"]
    /\ res' = [res EXCEPT ![w] = OK]
    /\ log' = Append(log, w)
    /\ UNCHANGED <<instructors, avail, last, mem, req, calc>>

\* create_schedule, lines 62-63: save_items rewrites the file with the writer's
\* list and the call returns
Save(w) ==
    /\ pc[w] = "loaded"
    /\ items' = mem[w].write
    /\ pc' = [pc EXCEPT ![w] = "done"]
    /\ res' = [res EXCEPT ![w] = OK]
    /\ log' = Append(log, w)
    /\ UNCHANGED <<instructors, avail, last, mem, req, calc>>

NextRace ==
    \/ \E w \in Writers, payload \in CorePayloads : Load(w, payload)
    \/ \E w \in Writers : Save(w)

SpecRace == InitRace /\ [][NextRace]_vars

-----------------------------------------------------------------------------
(* app/main.py: the end-date calculator. Hours are whole numbers here; a date  *)
(* is <<year, month, day>>; an entry of a calendar month is an int or a text   *)

IntEntry(n) == [kind |-> "int", n |-> n, text |-> ""]
StrEntry(text) == [kind |-> "str", n |-> 0, text |-> text]

\* item.strip() for the texts in use, and whether it is all digits, and its int
EntryDigits(text) ==
    CASE text = " 7 " -> <<7>>
      [] text = "16" -> <<16>>
      [] text = "40" -> <<40>>
      [] OTHER -> <<>>

\* _sanitize_days_list: the ints and digit texts of 1..31, in order
_sanitize_days_list(entries) ==
    LET value(entry) == IF entry.kind = "int" THEN <<entry.n>> ELSE EntryDigits(entry.text)
        kept == SelectSeq(entries, LAMBDA entry :
                    value(entry) # <<>> /\ value(entry)[1] >= 1 /\ value(entry)[1] <= 31)
    IN  [i \in DOMAIN kept |-> value(kept[i])[1]]

\* weekday_map, line 312: the keys are SEG TER QUA QUI SEX, SAB, and the
\* Saturday token as its UTF-8 bytes read back as Latin-1
weekday_map ==
    [token \in {"SEG", "TER", "QUA", "QUI", "SEX", SabMojibake, "SAB"} |->
        CASE token = "SEG" -> 0 [] token = "TER" -> 1 [] token = "QUA" -> 2
          [] token = "QUI" -> 3 [] token = "SEX" -> 4 [] OTHER -> 5]

\* line 313
selected_weekdays(days_execucao) ==
    {weekday_map[day] : day \in {d \in Range(days_execucao) : d \in DOMAIN weekday_map}}

NoCalendar == [found |-> FALSE, has_days |-> FALSE, dias_letivos_por_mes |-> <<>>]

\* lines 317-318: the sets of teaching days of the twelve months
month_sets(calendario) ==
    IF calendario.has_days
    THEN [m \in 1..12 |-> Range(_sanitize_days_list(calendario.dias_letivos_por_mes[m]))]
    ELSE [m \in 1..12 |-> {}]

\* a variant that counts the hours left over by whole days
total_days_needed_of_remainder(ch_total, hs_dia) == (ch_total % hs_dia) + 1

\* line 320: int(math.ceil(ch_total / hs_dia)), both positive
total_days_needed(ch_total, hs_dia) == (ch_total + hs_dia - 1) \div hs_dia

\* current += timedelta(days=1)
NextDay(current) ==
    IF current[3] < _month_last_day(current[1], current[2])
    THEN <<current[1], current[2], current[3] + 1>>
    ELSE IF current[2] < 12 THEN <<current[1], current[2] + 1, 1>>
    ELSE <<current[1] + 1, 1, 1>>

CalcFailed(error) == [date |-> <<>>, error |-> error]

\* lines 324-333 within one month: the walk from current to the end of its
\* month, counted days behind it; the date found, or the count and the day
\* the walk goes on from
RECURSIVE WalkDays(_, _, _, _, _, _)
WalkDays(current, counted, month, weekdays, sets, needed) ==
    IF current[2] # month
    THEN [found |-> FALSE, date |-> <<>>, counted |-> counted, next |-> current]
    ELSE IF Weekday(current) \in weekdays /\ current[3] \in sets[current[2]]
         THEN IF counted + 1 >= needed
              THEN [found |-> TRUE, date |-> current, counted |-> counted + 1,
                    next |-> current]
              ELSE WalkDays(NextDay(current), counted + 1, month, weekdays, sets, needed)
         ELSE WalkDays(NextDay(current), counted, month, weekdays, sets, needed)

\* a variant that walks on through the year after the stated one
RECURSIVE Walk_into_next_year(_, _, _, _, _, _)
Walk_into_next_year(current, counted, year, weekdays, sets, needed) ==
    IF current[1] > year + 1 THEN CalcFailed("not_enough_days")
    ELSE LET month == WalkDays(current, counted, current[2], weekdays, sets, needed)
         IN  IF month.found THEN [date |-> month.date, error |-> ""]
             ELSE Walk_into_next_year(month.next, month.counted, year, weekdays, sets, needed)

\* lines 324-335: the walk from current on, counted days behind it, taken a
\* month at a time
RECURSIVE Walk(_, _, _, _, _, _)
Walk(current, counted, year, weekdays, sets, needed) ==
    IF current[1] # year THEN CalcFailed("not_enough_days")
    ELSE LET month == WalkDays(current, counted, current[2], weekdays, sets, needed)
         IN  IF month.found THEN [date |-> month.date, error |-> ""]
             ELSE Walk(month.next, month.counted, year, weekdays, sets, needed)

\* _calculate_end_date: the date, or the error returned in its place
_calculate_end_date(year, start_date_raw, days_execucao, ch_total, hs_dia, calendario) ==
    IF ~calendario.found THEN CalcFailed("no_calendar")
    ELSE IF ~TruthyText(start_date_raw) THEN CalcFailed("no_start")
    ELSE IF days_execucao = <<>> THEN CalcFailed("no_days")
    ELSE IF ch_total <= 0 \/ hs_dia <= 0 THEN CalcFailed("hours")
    ELSE IF ~DateParses(start_date_raw) THEN CalcFailed("bad_start")
    ELSE IF _parse_date(start_date_raw)[1] # year THEN CalcFailed("year")
    ELSE IF selected_weekdays(days_execucao) = {} THEN CalcFailed("bad_days")
    ELSE IF total_days_needed(ch_total, hs_dia) <= 0 THEN CalcFailed("no_total")
    ELSE Walk(_parse_date(start_date_raw), 0, year, selected_weekdays(days_execucao),
              month_sets(calendario), total_days_needed(ch_total, hs_dia))

-----------------------------------------------------------------------------
(* Calls of the end-date calculator: one call, then the same call with another *)
(* total of hours                                                               *)

NoEntries == [m \in 1..12 |-> <<>>]

\* December 2024 with Mondays 2, 9, 16, 30, Tuesday 3, Wednesdays 4, 11,
\* Saturdays 7, 14 and entries the sanitiser drops; Monday 5 February
CalendarOfDecember ==
    [found |-> TRUE, has_days |-> TRUE,
     dias_letivos_por_mes |->
        [NoEntries EXCEPT
            ![2] = <<IntEntry(5)>>,
            ![12] = <<IntEntry(2), IntEntry(3), IntEntry(4), StrEntry(" 7 "), IntEntry(9),
                      IntEntry(11), IntEntry(14), StrEntry("16"), IntEntry(30), IntEntry(0),
                      IntEntry(32), StrEntry("x"), StrEntry("40")>>]]

\* March 2024 with Fridays 1, 8, 15, 22, 29
CalendarOfMarch ==
    [found |-> TRUE, has_days |-> TRUE,
     dias_letivos_por_mes |->
        [NoEntries EXCEPT
            ![3] = <<IntEntry(1), IntEntry(8), IntEntry(15), IntEntry(22), IntEntry(29)>>]]

CalendarWithoutDays == [found |-> TRUE, has_days |-> FALSE, dias_letivos_por_mes |-> <<>>]

Calendars == {NoCalendar, CalendarOfDecember, CalendarOfMarch, CalendarWithoutDays}

CalcYears == {2024}

StartDates ==
    {DateText(1, 3, 2024), DateText(2, 12, 2024), DateText(7, 12, 2024), DateText(30, 12, 2024),
     DateText(2, 12, 2023), DateText(31, 11, 2024), BlankDate}

DayLists ==
    {<<>>, <<"SEG">>, <<"SEX">>, <<"SEG", "QUA">>, <<SabAcute>>, <<"SEG", SabAcute>>, <<"SAB">>,
     <<"SEG", "SAB">>, <<"DOM">>}

TotalHours == {-4, 0, 4, 6, 8, 12, 40}

HoursPerDay == {0, 3, 4, 8}

CalcCall(year, start_date_raw, days_execucao, ch_total, hs_dia, calendario) ==
    [year |-> year, start_date_raw |-> start_date_raw, days_execucao |-> days_execucao,
     ch_total |-> ch_total, hs_dia |-> hs_dia, calendario |-> calendario,
     result |-> _calculate_end_date(year, start_date_raw, days_execucao,
                                    ch_total, hs_dia, calendario)]

InitCalc ==
    /\ items = <<>>
    /\ instructors = InstructorsFile
    /\ avail = AvailabilityFile
    /\ last = NoCall
    /\ Idle

\* _calculate_end_date(year, start_date_raw, days_execucao, ch_total, hs_dia, calendario)
Calculate(year, start_date_raw, days_execucao, ch_total, hs_dia, calendario) ==
    /\ calc = <<>>
    /\ calc' = <<CalcCall(year, start_date_raw, days_execucao, ch_total, hs_dia, calendario)>>
    /\ UNCHANGED <<items, instructors, avail, last, pc, mem, req, res, log>>

\* the same call again, for another total of hours
Recalculate(ch_total) ==
    /\ Len(calc) = 1
    /\ calc' = Append(calc, CalcCall(calc[1].year, calc[1].start_date_raw,
                                     calc[1].days_execucao, ch_total,
                                     calc[1].hs_dia, calc[1].calendario))
    /\ UNCHANGED <<items, instructors, avail, last, pc, mem, req, res, log>>

NextCalc ==
    \/ \E year \in CalcYears, start_date_raw \in StartDates, days_execucao \in DayLists,
          ch_total \in TotalHours, hs_dia \in HoursPerDay, calendario \in Calendars :
           Calculate(year, start_date_raw, days_execucao, ch_total, hs_dia, calendario)
    \/ \E ch_total \in TotalHours : Recalculate(ch_total)

SpecCalc == InitCalc /\ [][NextCalc]_vars

-----------------------------------------------------------------------------
(* What the claims speak of, stated on the stored texts *)

\* the calendar days of an offering's date range, as ordinals
DaysOfRange(o) == Ordinal(_parse_date(o.data_inicio))..Ordinal(_parse_date(o.data_fim))

\* the two date ranges share a day
RangesOverlap(a, b) == DaysOfRange(a) \cap DaysOfRange(b) # {}

\* the two weekday sets share a token
WeekdaysIntersect(a, b) == Range(a.dias_execucao) \cap Range(b.dias_execucao) # {}

\* the minutes of an offering's daily window, the end excluded
MinutesOfWindow(o) == _parse_time(o.hora_inicio)..(_parse_time(o.hora_fim) - 1)

\* the two daily windows share more than an endpoint
WindowsStrictlyOverlap(a, b) == MinutesOfWindow(a) \cap MinutesOfWindow(b) # {}

\* the two daily windows share an endpoint and nothing else
WindowsTouch(a, b) ==
    /\ ~WindowsStrictlyOverlap(a, b)
    /\ \/ _parse_time(a.hora_fim) = _parse_time(b.hora_inicio)
       \/ _parse_time(b.hora_fim) = _parse_time(a.hora_inicio)

\* the two offerings meet in time: all three of dates, weekdays and daily windows
MeetInTime(a, b) ==
    RangesOverlap(a, b) /\ WeekdaysIntersect(a, b) /\ WindowsStrictlyOverlap(a, b)

SameRoom(a, b) == a.sala_id = b.sala_id

ShareInstructor(a, b) == Range(a.instrutor_ids) \cap Range(b.instrutor_ids) # {}

DoubleBooked(a, b) == MeetInTime(a, b) /\ (SameRoom(a, b) \/ ShareInstructor(a, b))

\* the outcome is a room or instructor conflict
IsConflict(e) == e \in {"room", "instructor"}

-----------------------------------------------------------------------------
(* C1 *)

\* C1: after any sequence of create_schedule, validated update_schedule and
\* delete_schedule calls from the empty collection, no two persisted offerings
\* that meet in time (date ranges overlap, weekday sets intersect, daily windows
\* strictly overlap) have the same room or share an instructor.
C1_NoDoubleBooking ==
    \A i, j \in DOMAIN items : i < j => ~DoubleBooked(items[i], items[j])

\* two offerings of one instructor are persisted side by side, and a call that
\* would have double-booked has just been refused
C1_Witness ==
    /\ Len(items) = 2
    /\ ShareInstructor(items[1], items[2])
    /\ last.op \in {"create", "update"}
    /\ IsConflict(last.err)

-----------------------------------------------------------------------------
(* C2 *)

\* C2: a create_schedule or update_schedule call that fails, for whatever reason,
\* leaves the persisted collection exactly as it was.
C2_FailedCallPersistsNothing ==
    [][(last'.op \in {"create", "update"} /\ last'.err # OK) => items' = items]_vars

\* an update of a persisted offering has just been refused for a room conflict
C2_Witness ==
    /\ last.op = "update"
    /\ last.err = "room"
    /\ Len(items) = 2

-----------------------------------------------------------------------------
(* C3 *)

\* both writers have returned success after reading the same state of the file,
\* with different offerings
BothSucceededOnSameRead ==
    /\ \A w \in Writers : pc[w] = "done" /\ res[w] = OK
    /\ mem["w1"].read = mem["w2"].read
    /\ req["w1"] # req["w2"]

\* C3: when two interleaved create_schedule calls read the same state, both pass
\* validation and both return success, the file ends as the second writer left
\* it: what was read plus the second writer's offering, the first writer's
\* offering lost although nothing was deleted.
C3_LostUpdate ==
    BothSucceededOnSameRead =>
        LET first == log[1]
            second == log[2]
        IN  /\ items = Append(mem[second].read, req[second])
            /\ \E i \in DOMAIN items : items[i] = req[second]
            /\ \A i \in DOMAIN items : items[i] # req[first]

\* the execution has happened: two successful creates on one read of a file that
\* held an offering, which is still there
C3_Witness ==
    /\ BothSucceededOnSameRead
    /\ Len(mem["w1"].read) = 1
    /\ Len(items) = 2
    /\ items[1] = mem["w1"].read[1]
    /\ log = <<"w1", "w2">>

-----------------------------------------------------------------------------
(* C4 *)

\* C4: a candidate whose daily window shares only an endpoint with the window of
\* an existing offering is never rejected for a room or instructor conflict with
\* that offering, whatever else the two have in common.
C4_TouchingWindowsNeverConflict ==
    last.op = "validate" =>
        \A i \in DOMAIN items :
            WindowsTouch(items[i], last.cand) =>
                ~(IsConflict(last.err) /\ RaisedAt(items, last.cand) = i)

\* a candidate passed although room, instructors, weekdays and dates are those of
\* an existing offering whose window ends when the candidate's starts
C4_Witness ==
    /\ last.op = "validate"
    /\ last.err = OK
    /\ \E i \in DOMAIN items :
          /\ WindowsTouch(items[i], last.cand)
          /\ _parse_time(items[i].hora_fim) = _parse_time(last.cand.hora_inicio)
          /\ SameRoom(items[i], last.cand)
          /\ items[i].instrutor_ids = last.cand.instrutor_ids
          /\ items[i].dias_execucao = last.cand.dias_execucao
          /\ items[i].data_inicio = last.cand.data_inicio
          /\ items[i].data_fim = last.cand.data_fim

-----------------------------------------------------------------------------
(* C5 *)

\* the candidate gets as far as the scan of the existing offerings: its fields,
\* id, references, dates and times are in order and the availability and
\* workload checks pass
ReachesScan(list, p) ==
    /\ NormalizeDatesError(p) = OK
    /\ require_fields(p)
    /\ ensure_unique_id(list, p.id)
    /\ _validate_references(p) = OK
    /\ ~DateLT(_parse_date(p.data_fim), _parse_date(p.data_inicio))
    /\ _validate_dates_and_times(p) = OK
    /\ _validate_instructor_availability(p) = OK
    /\ _validate_instructor_workload(list, p) = OK

\* the existing offerings of the candidate's room that meet it in time
RoomClashes(list, p) ==
    {i \in DOMAIN list : SameRoom(list[i], p) /\ MeetInTime(list[i], p)}

\* the existing offerings of another room that meet the candidate in time and
\* share an instructor with it
InstructorClashes(list, p) ==
    {i \in DOMAIN list : ~SameRoom(list[i], p) /\ ShareInstructor(list[i], p)
                         /\ MeetInTime(list[i], p)}

\* C5 as stated: a candidate that passes the workload and availability checks and
\* meets an existing offering of its room in time is rejected with the
\* room-conflict error and is not persisted.
C5_RoomClashRaisesRoomConflict ==
    [][(/\ last'.op = "create"
        /\ ReachesScan(items, last'.cand)
        /\ RoomClashes(items, last'.cand) # {})
       => (last'.err = "room" /\ items' = items)]_vars

\* C5 amended: such a candidate is rejected and not persisted; the error is the
\* room conflict, unless an offering that stands earlier in the collection meets
\* the candidate in time in another room with a common instructor, and then it
\* is the instructor conflict.
C5_RoomClashRejected ==
    [][(/\ last'.op = "create"
        /\ ReachesScan(items, last'.cand)
        /\ RoomClashes(items, last'.cand) # {})
       => /\ items' = items
          /\ IsConflict(last'.err)
          /\ last'.err = "instructor" <=>
                \E j \in InstructorClashes(items, last'.cand) :
                    \A i \in RoomClashes(items, last'.cand) : j < i]_vars

\* a create has been refused for an instructor conflict although an offering of
\* its room meets it in time
C5_Witness ==
    /\ last.op = "create"
    /\ last.err = "instructor"
    /\ ReachesScan(items, last.cand)
    /\ RoomClashes(items, last.cand) # {}

-----------------------------------------------------------------------------
(* C6 *)

\* C6: the conflict validator raises a room or instructor conflict because of an
\* existing offering only if the date ranges of the pair overlap, their weekday
\* sets intersect and their daily windows strictly overlap.
C6_ConflictOnlyWhenAllThreeHold ==
    (last.op = "validate" /\ IsConflict(last.err)) =>
        MeetInTime(items[RaisedAt(items, last.cand)], last.cand)

-----------------------------------------------------------------------------
(* C7 *)

\* both directions have been run and every offering involved passes field
\* validation
SwappedOnValidFields ==
    /\ log # <<>>
    /\ \A item \in Range(items) : require_fields(item)

-----------------------------------------------------------------------------
(* C8 *)

\* the merged record keeps room, dates, weekdays, times and instructors
KeepsCore(stored, merged) ==
    /\ merged.sala_id = stored.sala_id
    /\ merged.data_inicio = stored.data_inicio
    /\ merged.data_fim = stored.data_fim
    /\ merged.dias_execucao = stored.dias_execucao
    /\ merged.hora_inicio = stored.hora_inicio
    /\ merged.hora_fim = stored.hora_fim
    /\ merged.instrutor_ids = stored.instrutor_ids

\* C8: a validated update is never checked against the record being updated, so
\* an update that keeps room, dates, weekdays, times and instructors of an
\* offering that is double-booked with no other offering is accepted (its
\* required fields and references being in order).
C8_UnchangedUpdateAccepted ==
    [][(/\ last'.op = "update"
        /\ IndexOf(items, last'.schedule_id) # 0
        /\ LET k == IndexOf(items, last'.schedule_id)
           IN  /\ KeepsCore(items[k], last'.cand)
               /\ \A j \in DOMAIN items : j # k => ~DoubleBooked(items[k], items[j])
        /\ require_fields(last'.cand)
        /\ _validate_references(last'.cand) = OK)
       => last'.err = OK]_vars

-----------------------------------------------------------------------------
(* C9 *)

\* the call returned a date
Succeeded(call) == call.error = ""

\* the weekdays the tokens of the form name: SEG..SEX and the Saturday token
SelectedWeekdays_of_form(days_execucao) ==
    {_weekday_to_index(day) : day \in Range(days_execucao)} \ {-1}

\* the dates of a year
DatesOfYear(year) ==
    {dt \in {year} \X (1..12) \X (1..31) : dt[3] <= _month_last_day(dt[1], dt[2])}

\* the date is on a selected weekday and a teaching day of its month
CountsForCall(call, dt) ==
    /\ Weekday(dt) \in SelectedWeekdays_of_form(call.days_execucao)
    /\ dt[3] \in month_sets(call.calendario)[dt[2]]

\* the counting dates from the start date of the call to dt, both included
CountedUpTo(call, dt) ==
    {x \in DatesOfYear(call.year) :
        /\ DateLE(_parse_date(call.start_date_raw), x)
        /\ DateLE(x, dt)
        /\ CountsForCall(call, x)}

\* C9: when _calculate_end_date succeeds, the date it returns is on a selected
\* weekday and a teaching day of its month, and the dates from the start date to
\* it that are both number exactly ceil(total_hours / hours_per_day).
C9_EndDateCountsExactly ==
    \A i \in DOMAIN calc :
        Succeeded(calc[i].result) =>
            /\ CountsForCall(calc[i], calc[i].result.date)
            /\ Cardinality(CountedUpTo(calc[i], calc[i].result.date))
                  = total_days_needed(calc[i].ch_total, calc[i].hs_dia)

-----------------------------------------------------------------------------
(* C10 *)

\* the call of fewer hours and the call of more hours, of two calls
Fewer == IF calc[1].ch_total <= calc[2].ch_total THEN calc[1] ELSE calc[2]
More == IF calc[1].ch_total <= calc[2].ch_total THEN calc[2] ELSE calc[1]

\* C10 as stated: calendar, year, start date, weekdays and hours per day fixed,
\* if h1 <= h2 and the calculation succeeds for h2 then it succeeds for h1 and
\* its date for h1 is not later.
C10_MonotoneInHours ==
    (Len(calc) = 2 /\ Succeeded(More.result)) =>
        /\ Succeeded(Fewer.result)
        /\ DateLE(Fewer.result.date, More.result.date)

\* C10 amended: the same for 0 < h1 <= h2.
C10_MonotoneInPositiveHours ==
    (Len(calc) = 2 /\ Succeeded(More.result) /\ Fewer.ch_total > 0) =>
        /\ Succeeded(Fewer.result)
        /\ DateLE(Fewer.result.date, More.result.date)

\* two successful calls, the one of more hours ending on a later date
C10_Witness ==
    /\ Len(calc) = 2
    /\ Succeeded(More.result)
    /\ Succeeded(Fewer.result)
    /\ Fewer.ch_total > 0
    /\ DateLT(Fewer.result.date, More.result.date)

-----------------------------------------------------------------------------
(* C11 *)

\* the call of scenario 1 but for the weekday tokens: the 2024 calendar with
\* March teaching days 1, 8, 15, 22, 29, 40 hours at 8 a day, start 01/03/2024
IsMarchScenario(call) ==
    /\ call.year = 2024
    /\ call.calendario = CalendarOfMarch
    /\ call.start_date_raw = DateText(1, 3, 2024)
    /\ call.ch_total = 40
    /\ call.hs_dia = 8

\* C11 as stated: in that scenario with the weekday set {Monday} (token SEG) the
\* calculation returns 29/03/2024.
C11_MondayScenarioEndsOn29March ==
    \A i \in DOMAIN calc :
        (IsMarchScenario(calc[i]) /\ calc[i].days_execucao = <<"SEG">>) =>
            calc[i].result = [date |-> <<2024, 3, 29>>, error |-> ""]

\* C11 amended: 1, 8, 15, 22 and 29 March 2024 are Fridays; with the weekday set
\* {Friday} (token SEX) the calculation returns 29/03/2024, and with {Monday}
\* (token SEG) it returns the error of too few teaching days and no date.
C11_FridayScenarioEndsOn29March ==
    \A i \in DOMAIN calc :
        IsMarchScenario(calc[i]) =>
            /\ calc[i].days_execucao = <<"SEX">> =>
                  calc[i].result = [date |-> <<2024, 3, 29>>, error |-> ""]
            /\ calc[i].days_execucao = <<"SEG">> =>
                  calc[i].result = CalcFailed("not_enough_days")

\* the scenario has been calculated for Fridays and, the hours changed and
\* changed back, the fifth teaching Friday is the answer
C11_Witness ==
    /\ Len(calc) = 2
    /\ IsMarchScenario(calc[2])
    /\ calc[2].days_execucao = <<"SEX">>
    /\ calc[2].result.date = <<2024, 3, 29>>
    /\ Weekday(<<2024, 3, 29>>) = 4

-----------------------------------------------------------------------------
(* C12 *)

\* the hours are positive and the start date is a date of the stated year
HasCountableInputs(call) ==
    /\ call.ch_total > 0
    /\ call.hs_dia > 0
    /\ DateParses(call.start_date_raw)
    /\ _parse_date(call.start_date_raw)[1] = call.year

\* fewer dates from the start date to 31 December are on a selected weekday
\* and teaching days than the hours need
TooFewDaysLeft(call) ==
    /\ HasCountableInputs(call)
    /\ Cardinality(CountedUpTo(call, <<call.year, 12, 31>>))
          < total_days_needed(call.ch_total, call.hs_dia)

\* C12: when fewer than ceil(total_hours / hours_per_day) dates from the start
\* date to 31 December of the stated year are on a selected weekday and teaching
\* days, _calculate_end_date returns an error and no date; it never returns a
\* date outside the stated year, and never a date together with an error.
C12_TooFewDaysIsAnError ==
    calc # <<>> =>
        LET call == calc[Len(calc)]
        IN  /\ TooFewDaysLeft(call) =>
                  (call.result.error # "" /\ call.result.date = <<>>)
            /\ call.result.date # <<>> =>
                  (call.result.date[1] = call.year /\ call.result.error = "")

\* the walk has run out of year after counting one teaching Monday of the two
\* the hours need
C12_Witness ==
    /\ Len(calc) = 1
    /\ TooFewDaysLeft(calc[1])
    /\ Cardinality(CountedUpTo(calc[1], <<calc[1].year, 12, 31>>)) = 1
    /\ calc[1].result = CalcFailed("not_enough_days")

-----------------------------------------------------------------------------
(* Route layer (app/main.py): the create form and the update form of an     *)
(* offering, which recompute the end date before they call the store        *)

\* courses.json and shifts.json as the routes read them
CoursesFile == <<[id |-> "C1", carga_horaria_total |-> 8]>>
ShiftsFile == <<[id |-> "T2", hs_dia |-> 4], [id |-> "turno1", hs_dia |-> 4]>>

\* get_calendar(year): the calendars file holds the year 2024 only
get_calendar(year) == IF year = 2024 THEN CalendarOfDecember ELSE NoCalendar

\* _normalize_instructor_ids: stripped, without repetitions, the single id
\* when the list gives none
_normalize_instructor_ids(instrutor_ids, fallback_instrutor_id) ==
    LET cleaned == Dedupe(instrutor_ids, <<>>)
    IN  IF cleaned = <<>> /\ Truthy(Strip(fallback_instrutor_id))
        THEN <<Strip(fallback_instrutor_id)>>
        ELSE cleaned

\* _next_schedule_offer_id: the route's own copy of the id rule
_next_schedule_offer_id(list, year) ==
    LET next_seq == SetMax(SeqsOfYear(list, year)) + 1
    IN  OfferId(next_seq, year, IF next_seq < 100 THEN 2 ELSE Digits(next_seq))

ComputeFailed(error) == [text |-> AbsentDate, error |-> error]

\* _compute_schedule_end_date: the end date as text "%d/%m/%Y", or the error
_compute_schedule_end_date(ano, data_inicio, dias_execucao, curso_id, turno_id) ==
    LET course == find_item(CoursesFile, curso_id)
        shift == find_item(ShiftsFile, turno_id)
    IN  IF ano = 0 THEN ComputeFailed("no_year")
        ELSE IF course = <<>> THEN ComputeFailed("no_course")
        ELSE IF shift = <<>> THEN ComputeFailed("no_shift")
        ELSE LET end == _calculate_end_date(ano, data_inicio, dias_execucao,
                                            course[1].carga_horaria_total, shift[1].hs_dia,
                                            get_calendar(ano))
             IN  IF end.error # "" \/ end.date = <<>>
                 THEN ComputeFailed(IF end.error # "" THEN end.error ELSE "no_end_date")
                 ELSE [text |-> StrfDate(end.date), error |-> ""]

\* the fields both forms build from the request, lines 3008-3033 and 3140-3162
FormFields(form) ==
    LET selected_instructors == _normalize_instructor_ids(form.instrutor_ids, form.instrutor_id)
    IN  [form EXCEPT !.instrutor_id = IF selected_instructors # <<>>
                                      THEN selected_instructors[1] ELSE "",
                     !.instrutor_ids = selected_instructors]

\* schedules_create, lines 3034-3035: the payload with the id the route gives it
RoutePayload(list, form) ==
    LET payload == FormFields(form)
    IN  [payload EXCEPT !.id = _next_schedule_offer_id(list, IF payload.ano # 0
                                                             THEN payload.ano ELSE NowYear)]

\* schedules_create, lines 3037-3057: OK or the error shown on the form
RouteCreateError(list, form) ==
    LET payload == RoutePayload(list, form)
        computed == _compute_schedule_end_date(payload.ano, payload.data_inicio,
                        payload.dias_execucao, payload.curso_id, payload.turno_id)
    IN  IF payload.instrutor_ids = <<>> THEN "no_instructor"
        ELSE IF computed.error # "" THEN computed.error
        ELSE IF payload.data_fim # computed.text THEN "end_date_mismatch"
        ELSE CreateError(list, payload)

\* schedules_update: the updates dict, every form field and no id
RouteUpdates(form) ==
    LET fields == FormFields(form)
    IN  [f \in DOMAIN fields \ {"id", "chronogram"} |-> fields[f]]

\* schedules_update, lines 3164-3178: OK or the error shown on the form
RouteUpdateError(list, schedule_id, form) ==
    LET updates == RouteUpdates(form)
        computed == _compute_schedule_end_date(updates.ano, updates.data_inicio,
                        updates.dias_execucao, updates.curso_id, updates.turno_id)
    IN  IF updates.instrutor_ids = <<>> THEN "no_instructor"
        ELSE IF TruthyText(computed.text) /\ updates.data_fim # computed.text
             THEN "end_date_mismatch"
        ELSE UpdateError(list, schedule_id, updates, TRUE)

\* the form: 8 hours at 4 hours a day from Monday 02/12/2024 on Mondays end on
\* 09/12/2024
RouteWindow ==
    Window(DateText(2, 12, 2024), DateText(9, 12, 2024), <<"SEG">>, TimeText(8, 0), TimeText(12, 0))

RouteForm(sala_id, instrutor_id) ==
    [Payload(AbsentId, sala_id, instrutor_id, <<>>, RouteWindow) EXCEPT !.mes = "12"]

BaseForm == RouteForm("R1", "I1")

\* forms with the recomputed end date, and forms with one thing wrong each
RouteForms ==
    {RouteForm(r, i) : r \in ROOMS, i \in {"I1", "I2"}}
    \cup {[BaseForm EXCEPT !.data_fim = DateText(16, 12, 2024)],
          [BaseForm EXCEPT !.data_fim = DateTextUnpadded(9, 12, 2024)],
          [BaseForm EXCEPT !.data_inicio = DateText(3, 12, 2024), !.data_fim = DateText(16, 12, 2024)],
          [BaseForm EXCEPT !.data_inicio = DateText(30, 12, 2024), !.data_fim = DateText(30, 12, 2024)],
          [BaseForm EXCEPT !.dias_execucao = <<"SEG", "QUA">>, !.data_fim = DateText(4, 12, 2024)],
          [BaseForm EXCEPT !.dias_execucao = <<"TER">>, !.data_fim = DateText(9, 12, 2024)],
          [BaseForm EXCEPT !.ano = 0],
          [BaseForm EXCEPT !.curso_id = "C9"],
          [BaseForm EXCEPT !.instrutor_id = ""],
          [BaseForm EXCEPT !.instrutor_id = "I1", !.instrutor_ids = <<"I2", " I1 ", "I2">>]}

InitRoute ==
    /\ instructors = InstructorsFile
    /\ avail = AvailabilityFile
    /\ items = <<>>
    /\ last = NoCall
    /\ pc = [w \in {} |-> "idle"]
    /\ mem = [w \in {} |-> <<>>]
    /\ req = NoOffering
    /\ res = [w \in {} |-> OK]
    /\ log = <<>>
    /\ calc = <<>>

\* POST /schedules/new
schedules_create(form) ==
    /\ last.op = "none"
    /\ LET e == RouteCreateError(items, form)
           payload == RoutePayload(items, form)
       IN  /\ payload.id.seq <= MaxSeq
           /\ e # OK \/ Len(items) < MaxItems
           /\ items' = IF e = OK THEN CreateSaved(items, payload) ELSE items
           /\ last' = [op |-> "route_create", schedule_id |-> AbsentId,
                       cand |-> payload, err |-> e]
    /\ req' = form
    /\ UNCHANGED <<instructors, avail, pc, mem, res, log, calc>>

\* POST /schedules/{schedule_id}/edit
schedules_update(schedule_id, form) ==
    /\ last.op = "none"
    /\ LET e == RouteUpdateError(items, schedule_id, form)
       IN  /\ items' = IF e = OK THEN UpdateInPlace(items, schedule_id, RouteUpdates(form))
                        ELSE items
           /\ last' = [op |-> "route_update", schedule_id |-> schedule_id,
                       cand |-> IF IndexOf(items, schedule_id) = 0 THEN NoOffering
                                ELSE UpdateMerged(items, schedule_id, RouteUpdates(form)),
                       err |-> e]
    /\ req' = form
    /\ UNCHANGED <<instructors, avail, pc, mem, res, log, calc>>

\* the response has been rendered
RouteReturn ==
    /\ last.op # "none"
    /\ last' = NoCall
    /\ req' = NoOffering
    /\ UNCHANGED <<items, instructors, avail, pc, mem, res, log, calc>>

NextRoute ==
    \/ \E form \in RouteForms : schedules_create(form)
    \/ \E schedule_id \in KnownIds, form \in RouteForms : schedules_update(schedule_id, form)
    \/ RouteReturn

SpecRoute == InitRoute /\ [][NextRoute]_vars

-----------------------------------------------------------------------------
(* C13 *)

\* the end date the route recomputes from the submitted form
RecomputedFor(form) ==
    _compute_schedule_end_date(form.ano, form.data_inicio, form.dias_execucao,
                               form.curso_id, form.turno_id)

\* C13: every request of the create form or the update form whose submitted
\* data_fim differs from the end date recomputed from the course's hours, the
\* shift's hours per day, the start date, the weekday set and the year's
\* calendar, or whose end date cannot be recomputed, is rejected and nothing
\* is persisted; so every offering persisted through a form carries the
\* recomputed end date
C13_PersistedEndDateIsRecomputed ==
    [][last'.op \in {"route_create", "route_update"}
        => LET computed == RecomputedFor(req')
           IN  (computed.error # "" \/ req'.data_fim # computed.text)
                   => (last'.err # OK /\ items' = items)]_vars

-----------------------------------------------------------------------------
(* Creates and deletes under several instructors files: the weekly caps of  *)
(* I1 and I2 vary, no availability is declared                              *)

InstructorsWithCaps(cap_1, cap_2) ==
    <<[id |-> "I1", role |-> "Instrutor", max_horas_semana |-> cap_1],
      [id |-> "I2", role |-> "Instrutor", max_horas_semana |-> cap_2],
      [id |-> "A1", role |-> "Analista", max_horas_semana |-> <<>>],
      [id |-> "S1", role |-> "Assistente", max_horas_semana |-> <<>>]>>

\* I1 capped at 8 or 20 hours a week, I2 without cap or capped at 4 or 6
InstructorsFiles ==
    {InstructorsWithCaps(cap_1, cap_2) : cap_1 \in {<<8>>, <<20>>}, cap_2 \in {<<>>, <<4>>, <<6>>}}

\* the week of Monday 05/02/2024: five mornings (20 h), a Monday morning and a
\* Monday afternoon (4 h each), a Tuesday half-morning (2 h); and a Wednesday
\* morning of the week after (4 h)
WorkloadWindows ==
    {Window(DateText(5, 2, 2024), DateText(9, 2, 2024), <<"SEG", "TER", "QUA", "QUI", "SEX">>,
            TimeText(8, 0), TimeText(12, 0)),
     Window(DateText(5, 2, 2024), DateText(9, 2, 2024), <<"SEG">>, TimeText(8, 0), TimeText(12, 0)),
     Window(DateText(5, 2, 2024), DateText(9, 2, 2024), <<"SEG">>, TimeText(13, 0), TimeText(17, 0)),
     Window(DateText(5, 2, 2024), DateText(9, 2, 2024), <<"TER">>, TimeText(8, 0), TimeText(10, 0)),
     Window(DateText(12, 2, 2024), DateText(16, 2, 2024), <<"QUA">>, TimeText(8, 0), TimeText(12, 0))}

\* one instructor, or two with either of them first
WorkloadInstructorChoices ==
    {[instrutor_id |-> "I1", instrutor_ids |-> <<>>],
     [instrutor_id |-> "I2", instrutor_ids |-> <<>>],
     [instrutor_id |-> "I1", instrutor_ids |-> <<"I1", "I2">>],
     [instrutor_id |-> "I2", instrutor_ids |-> <<"I2", "I1">>]}

WorkloadPayloads ==
    {Payload(AbsentId, r, c.instrutor_id, c.instrutor_ids, w) :
        r \in ROOMS, c \in WorkloadInstructorChoices, w \in WorkloadWindows}

InitWorkload ==
    /\ instructors \in InstructorsFiles
    /\ avail = <<>>
    /\ items = <<>>
    /\ last = NoCall
    /\ Idle

NextWorkload ==
    \/ \E payload \in WorkloadPayloads : Create(payload)
    \/ \E schedule_id \in KnownIds : Delete(schedule_id)
    \/ Return

SpecWorkload == InitWorkload /\ [][NextWorkload]_vars

-----------------------------------------------------------------------------
(* C14 *)

\* the weekly minutes an offering contributes: the minutes of its daily window
\* times the number of its weekdays
ContributedMinutes(o) == Cardinality(MinutesOfWindow(o)) * Cardinality(Range(o.dias_execucao))

\* the weekly minutes of the persisted offerings that list the instructor
RECURSIVE PersistedMinutes(_, _)
PersistedMinutes(list, instructor_id) ==
    IF list = <<>> THEN 0
    ELSE (IF instructor_id \in Range(Head(list).instrutor_ids)
          THEN ContributedMinutes(Head(list)) ELSE 0)
         + PersistedMinutes(Tail(list), instructor_id)

\* the cumulative total of the instructor once the candidate is added
CumulativeMinutes(list, p, instructor_id) ==
    PersistedMinutes(list, instructor_id) + ContributedMinutes(p)

\* the cap of an instructor of the file, in minutes; none when it is unset
CapMinutes(instructor_id) ==
    LET hits == {i \in DOMAIN instructors : instructors[i].id = instructor_id}
        record == instructors[CHOOSE i \in hits : TRUE]
    IN  IF record.max_horas_semana = <<>> THEN <<>> ELSE <<60 * record.max_horas_semana[1]>>

\* the listed instructors whose cumulative total would exceed their cap
OverCap(list, p) ==
    {instructor_id \in Range(p.instrutor_ids) :
        /\ CapMinutes(instructor_id) # <<>>
        /\ CumulativeMinutes(list, p, instructor_id) > CapMinutes(instructor_id)[1]}

\* the candidate is in order apart from the workload: fields, id, references,
\* dates, times and availability
InOrderApartFromWorkload(list, p) ==
    /\ NormalizeDatesError(p) = OK
    /\ require_fields(p)
    /\ ensure_unique_id(list, p.id)
    /\ _validate_references(p) = OK
    /\ ~DateLT(_parse_date(p.data_fim), _parse_date(p.data_inicio))
    /\ _validate_dates_and_times(p) = OK
    /\ _validate_instructor_availability(p) = OK

\* no persisted offering meets the candidate in time in its room or with one of
\* its instructors
NoClash(list, p) == \A i \in DOMAIN list : ~DoubleBooked(list[i], p)

\* C14: a create whose candidate is in order and clashes with nothing succeeds
\* while the cumulative weekly total of each capped instructor it lists stays
\* within the cap, a total equal to the cap included; a create whose cumulative
\* total would exceed the cap of a listed instructor is rejected and nothing is
\* persisted.
C14_WorkloadCeiling ==
    [][last'.op = "create"
        => /\ (/\ InOrderApartFromWorkload(items, last'.cand)
               /\ NoClash(items, last'.cand)
               /\ OverCap(items, last'.cand) = {})
                  => (last'.err = OK /\ items' = Append(items, last'.cand))
           /\ OverCap(items, last'.cand) # {}
                  => (last'.err # OK /\ items' = items)]_vars

\* two offerings of I1 fill the cap of 8 hours exactly, and a further create for
\* I1 has just been rejected for the workload
C14_Witness ==
    /\ Len(items) = 2
    /\ CapMinutes("I1") = <<480>>
    /\ PersistedMinutes(items, "I1") = 480
    /\ last.op = "create"
    /\ last.err = "workload"
    /\ Range(last.cand.instrutor_ids) = {"I1"}

-----------------------------------------------------------------------------
(* C15 *)

\* C15: for a candidate that reaches the workload check, the check rejects it
\* if and only if at least one instructor it lists has a cap and that
\* instructor's own weekly total, the candidate included, exceeds that cap; an
\* instructor without cap never causes the rejection and the hours of different
\* instructors are not added together.
C15_WorkloadPerInstructor ==
    [][(last'.op = "create" /\ InOrderApartFromWorkload(items, last'.cand))
        => (last'.err = "workload" <=> OverCap(items, last'.cand) # {})]_vars

\* a candidate of I1 and I2 has just been accepted: I2 has no cap and more
\* hours than the cap of I1, and I1's own hours are within its cap
C15_Witness ==
    /\ last.op = "create"
    /\ last.err = OK
    /\ Range(last.cand.instrutor_ids) = {"I1", "I2"}
    /\ CapMinutes("I2") = <<>>
    /\ CapMinutes("I1") # <<>>
    /\ PersistedMinutes(items, "I1") <= CapMinutes("I1")[1]
    /\ PersistedMinutes(items, "I2") > CapMinutes("I1")[1]

-----------------------------------------------------------------------------
(* Declared availability: upsert_record on the availability file, and       *)
(* creates of offerings of July and August 2024 validated against it, each  *)
(* on an empty collection                                                   *)

MaxRecords == 2

\* normalize_period: the period value as stored, "" when it raises
normalize_period(period_type, period_value) ==
    CASE period_type = "month" -> IF period_value \in 1..12 THEN ToString(period_value) ELSE ""
      [] period_type = "quarter" -> IF period_value \in 1..4 THEN ToString(period_value) ELSE ""
      [] period_type = "semester" -> IF period_value \in 1..2 THEN ToString(period_value) ELSE ""
      [] period_type = "year" -> "A"
      [] OTHER -> ""

\* upsert_record, lines 69-75: the slots without repetitions
RECURSIVE UniqueSlots(_, _)
UniqueSlots(raw, acc) ==
    IF raw = <<>> THEN acc
    ELSE IF Head(raw) \in Range(acc) THEN UniqueSlots(Tail(raw), acc)
    ELSE UniqueSlots(Tail(raw), Append(acc, Head(raw)))

\* upsert_record: OK or the error raised
UpsertError(payload) ==
    IF ~Truthy(Strip(payload.instructor_id)) THEN "instructor"
    ELSE IF payload.year <= 0 THEN "year"
    ELSE IF normalize_period(payload.period_type, payload.period_value) = "" THEN "period"
    ELSE OK

\* upsert_record: the list handed to save_items
UpsertSaved(list, payload) ==
    LET p_value == normalize_period(payload.period_type, payload.period_value)
        record_id == build_record_id(payload.instructor_id, payload.year,
                                     payload.period_type, p_value)
        slots == UniqueSlots(payload.slots, <<>>)
        hits == {i \in DOMAIN list : list[i].id = record_id}
    IN  IF hits # {}
        THEN [list EXCEPT ![CHOOSE i \in hits : \A j \in hits : i <= j].slots = slots]
        ELSE Append(list, AvailabilityRecord(Strip(payload.instructor_id), payload.year,
                                             payload.period_type, p_value, slots))

\* the slot lists declared: Mondays of shift T2, Wednesdays of shift T2,
\* Mondays of shift turno1
DeclaredSlots ==
    {<<Slot("SEG", "T2")>>, <<Slot("QUA", "T2"), Slot("QUA", "T2")>>, <<Slot("SEG", "turno1")>>}

Period(period_type, period_value) == [type |-> period_type, value |-> period_value]

\* July, August, the third quarter, the second semester, the year
DeclaredPeriods ==
    {Period("month", 7), Period("month", 8), Period("quarter", 3),
     Period("semester", 2), Period("year", 0)}

UpsertPayload(instructor_id, period, slots) ==
    [instructor_id |-> instructor_id, year |-> 2024, period_type |-> period.type,
     period_value |-> period.value, slots |-> slots]

UpsertInputs ==
    {UpsertPayload("I1", period, slots) : period \in DeclaredPeriods, slots \in DeclaredSlots}
    \cup {UpsertPayload("I2", Period("month", 7), <<Slot("QUA", "T2")>>),
          UpsertPayload("I1", Period("month", 13), <<Slot("SEG", "T2")>>)}

\* 01/07/2024, 29/07/2024 and 05/08/2024 are Mondays, 31/07/2024 a Wednesday
AvailabilityWindows ==
    {Window(DateText(1, 7, 2024), DateText(5, 7, 2024), <<"SEG">>, TimeText(8, 0), TimeText(12, 0)),
     Window(DateText(1, 7, 2024), DateText(5, 7, 2024), <<"SEG", "QUA">>, TimeText(8, 0), TimeText(12, 0)),
     Window(DateText(29, 7, 2024), DateText(9, 8, 2024), <<"SEG">>, TimeText(8, 0), TimeText(12, 0)),
     Window(DateText(31, 7, 2024), DateText(9, 8, 2024), <<"SEG">>, TimeText(8, 0), TimeText(12, 0))}

AvailabilityPayloads ==
    {[Payload(AbsentId, "R1", "I1", <<>>, w) EXCEPT !.mes = "7", !.turno_id = t] :
        w \in AvailabilityWindows, t \in SHIFTS}
    \cup {[Payload(AbsentId, "R1", "I1", <<"I1", "I2">>, w) EXCEPT !.mes = "7"] :
            w \in AvailabilityWindows}

InitAvailability ==
    /\ instructors = InstructorsFile
    /\ avail = <<>>
    /\ items = <<>>
    /\ last = NoCall
    /\ Idle

\* upsert_record(payload)
Upsert(payload) ==
    /\ last.op = "none"
    /\ LET e == UpsertError(payload)
       IN  /\ e # OK \/ Len(UpsertSaved(avail, payload)) <= MaxRecords
           /\ avail' = IF e = OK THEN UpsertSaved(avail, payload) ELSE avail
           /\ last' = [op |-> "upsert", schedule_id |-> AbsentId, cand |-> NoOffering, err |-> e]
    /\ UNCHANGED <<items, instructors, pc, mem, req, res, log, calc>>

NextAvailability ==
    \/ \E payload \in UpsertInputs : Upsert(payload)
    \/ \E payload \in AvailabilityPayloads : items = <<>> /\ Create(payload)
    \/ \E schedule_id \in KnownIds : Delete(schedule_id)
    \/ Return

SpecAvailability == InitAvailability /\ [][NextAvailability]_vars

-----------------------------------------------------------------------------
(* C16 *)

\* the record is declared for the instructor and for a period that holds the month
RecordCovers(record, instructor_id, year, month) ==
    /\ record.instructor_id = instructor_id
    /\ record.year = year
    /\ \/ record.period_type = "month" /\ record.period_value = ToString(month)
       \/ record.period_type = "quarter" /\ record.period_value = ToString((month + 2) \div 3)
       \/ record.period_type = "semester" /\ record.period_value = ToString(IF month <= 6 THEN 1 ELSE 2)
       \/ record.period_type = "year"

\* the records of the file at any granularity for the instructor and month
Covering(instructor_id, year, month) ==
    {i \in DOMAIN avail : RecordCovers(avail[i], instructor_id, year, month)}

\* the months the date range of the candidate spans
SpannedMonths(p) ==
    {ym \in {p.ano} \X (1..12) :
        /\ DateLE(<<ym[1], ym[2], 1>>, _parse_date(p.data_fim))
        /\ DateLE(_parse_date(p.data_inicio), <<ym[1], ym[2], _month_last_day(ym[1], ym[2])>>)}

\* the candidate gets as far as the availability check
ReachesAvailabilityCheck(list, p) ==
    /\ NormalizeDatesError(p) = OK
    /\ require_fields(p)
    /\ ensure_unique_id(list, p.id)
    /\ _validate_references(p) = OK
    /\ ~DateLT(_parse_date(p.data_fim), _parse_date(p.data_inicio))
    /\ _validate_dates_and_times(p) = OK

\* C16: a create is rejected for availability only at an instructor and month
\* for which the file holds a record at some granularity; a candidate whose
\* instructors have no record at any granularity for any month it spans is
\* never rejected for availability.
C16_NoRecordNoRejection ==
    [][last'.op = "create"
        => /\ last'.err = "availability"
                => Covering(FirstFailingVisit(last'.cand).instructor_id,
                            FirstFailingVisit(last'.cand).range.year,
                            FirstFailingVisit(last'.cand).range.month) # {}
           /\ (/\ ReachesAvailabilityCheck(items, last'.cand)
               /\ \A instructor_id \in Range(last'.cand.instrutor_ids) :
                    \A ym \in SpannedMonths(last'.cand) :
                        Covering(instructor_id, ym[1], ym[2]) = {})
                => last'.err # "availability"]_vars

\* an offering of July 2024 of I1 has just been accepted while the file holds
\* records, none of them for I1 and July at any granularity
C16_Witness ==
    /\ last.op = "create"
    /\ last.err = OK
    /\ Range(last.cand.instrutor_ids) = {"I1"}
    /\ SpannedMonths(last.cand) = {<<2024, 7>>}
    /\ avail # <<>>
    /\ \E i \in DOMAIN avail : avail[i].instructor_id = "I1" /\ avail[i].slots = <<Slot("QUA", "T2")>>
    /\ \E i \in DOMAIN avail : avail[i].instructor_id = "I2"
    /\ Covering("I1", 2024, 7) = {}

-----------------------------------------------------------------------------
(* C17 *)

\* month before quarter before semester before year
Granularity(record) ==
    CASE record.period_type = "month" -> 1
      [] record.period_type = "quarter" -> 2
      [] record.period_type = "semester" -> 3
      [] OTHER -> 4

\* the record used for the instructor and month: the finest one that covers it
RecordUsed(instructor_id, year, month) ==
    LET covering == Covering(instructor_id, year, month)
    IN  {i \in covering : \A j \in covering : Granularity(avail[i]) <= Granularity(avail[j])}

\* the required slots: one per weekday of the candidate, for its shift
RequiredOf(p) == {Slot(day, p.turno_id) : day \in Range(p.dias_execucao)}

\* the required slots the stored slots of the record do not contain
Lacking(record, p) == RequiredOf(p) \ Range(record.slots)

\* the spanned months that hold a day of the range on a weekday of the candidate
QualifyingMonths(p) ==
    {ym \in SpannedMonths(p) :
        \E d \in 1.._month_last_day(ym[1], ym[2]) :
            /\ DateLE(_parse_date(p.data_inicio), <<ym[1], ym[2], d>>)
            /\ DateLE(<<ym[1], ym[2], d>>, _parse_date(p.data_fim))
            /\ Weekday(<<ym[1], ym[2], d>>) \in SelectedWeekdays_of_form(p.dias_execucao)}

\* the instructors and qualifying months whose record lacks a required slot
LackingAt(p) ==
    {v \in Range(p.instrutor_ids) \X QualifyingMonths(p) :
        \E i \in RecordUsed(v[1], v[2][1], v[2][2]) : Lacking(avail[i], p) # {}}

\* C17: when the record found for an instructor of the candidate and a
\* qualifying month does not contain every required slot, the create is
\* rejected for availability, nothing is persisted, and the message names the
\* month and year and exactly the slots that record lacks.
C17_MissingSlotsNamed ==
    [][(/\ last'.op = "create"
        /\ ReachesAvailabilityCheck(items, last'.cand)
        /\ LackingAt(last'.cand) # {})
       => /\ last'.err = "availability"
          /\ items' = items
          /\ \E v \in LackingAt(last'.cand) :
                \E i \in RecordUsed(v[1], v[2][1], v[2][2]) :
                    /\ AvailabilityMessage(last'.cand).year = v[2][1]
                    /\ AvailabilityMessage(last'.cand).month = v[2][2]
                    /\ AvailabilityMessage(last'.cand).missing = Lacking(avail[i], last'.cand)]_vars

-----------------------------------------------------------------------------
(* C18 *)

\* C18: the record used for an instructor and month is the first found in the
\* order month, quarter, semester, year, and a candidate that reaches the
\* availability check is rejected for availability exactly when the record
\* used for one of its instructors and qualifying months lacks a required
\* slot; so a quarter record lacking the slot rejects, and a month record whose
\* stored slots contain every required slot, whatever the shift id, accepts.
C18_FallbackOrder ==
    [][(last'.op = "create" /\ ReachesAvailabilityCheck(items, last'.cand))
        => (last'.err = "availability" <=> LackingAt(last'.cand) # {})]_vars

-----------------------------------------------------------------------------
(* Id assignment: collections persisted with caller-supplied ids, and the   *)
(* id create_schedule gives a payload that has none                         *)

MaxPersisted == 3

\* ids a caller supplies: 01/2024, 7/2024, 09/2024, 99/2024, 100/2024,
\* 05/2023, 150/2023 and an id of another form
SuppliedIds ==
    {OfferId(1, 2024, 2), OfferId(7, 2024, 1), OfferId(9, 2024, 2), OfferId(99, 2024, 2),
     OfferId(100, 2024, 3), OfferId(5, 2023, 2), OfferId(150, 2023, 3), RawId("X1")}

\* the k-th Monday morning of February 2024, from Monday 05/02/2024
MondayWindow(k) ==
    Window(DateText(7 * k - 2, 2, 2024), DateText(7 * k - 2, 2, 2024), <<"SEG">>,
           TimeText(8, 0), TimeText(12, 0))

\* the collection create_schedule saves when called with these ids in turn
RECURSIVE PersistedWith(_)
PersistedWith(ids) ==
    IF ids = <<>> THEN <<>>
    ELSE LET before == PersistedWith(SubSeq(ids, 1, Len(ids) - 1))
         IN  CreateSaved(before, Payload(ids[Len(ids)], "R1", "I2", <<>>, MondayWindow(Len(ids))))

\* every one of these creates succeeds
RECURSIVE AllCreated(_)
AllCreated(ids) ==
    \/ ids = <<>>
    \/ /\ AllCreated(SubSeq(ids, 1, Len(ids) - 1))
       /\ CreateError(PersistedWith(SubSeq(ids, 1, Len(ids) - 1)),
                      Payload(ids[Len(ids)], "R1", "I2", <<>>, MondayWindow(Len(ids)))) = OK

PersistedCollections ==
    {PersistedWith(ids) : ids \in {x \in UNION {[1..n -> SuppliedIds] : n \in 0..MaxPersisted} :
                                        AllCreated(x)}}

\* the years of the payloads without id; 0 when the payload gives no year
PayloadYears == {2023, 2024, 2025, 0}

InitIds ==
    /\ instructors = InstructorsFile
    /\ avail = <<>>
    /\ items \in PersistedCollections
    /\ last = NoCall
    /\ Idle

\* create_schedule, lines 52-54, on a payload without id: the id it is given
AssignId(ano) ==
    /\ log = <<>>
    /\ LET payload == [Payload(AbsentId, "R2", "I2", <<>>, MondayWindow(4)) EXCEPT !.ano = ano]
       IN  log' = <<[ano |-> ano, id |-> CreatePrepared(items, payload).id]>>
    /\ UNCHANGED <<items, instructors, avail, last, pc, mem, req, res, calc>>

NextIds == \E ano \in PayloadYears : AssignId(ano)

SpecIds == InitIds /\ [][NextIds]_vars

-----------------------------------------------------------------------------
(* C19 *)

\* the sequence numbers of the persisted ids of the form NN/YYYY of that year
NumbersOfYear(year) ==
    {items[i].id.seq : i \in {j \in DOMAIN items : items[j].id.raw = "" /\ items[j].id.year = year}}

\* one more than the highest of them, 1 when the year has none
NextNumber(year) ==
    IF NumbersOfYear(year) = {} THEN 1
    ELSE 1 + CHOOSE n \in NumbersOfYear(year) : \A k \in NumbersOfYear(year) : k <= n

\* the digits NN is written with: two below 100, its own from 100 on
WrittenWidth(n) == IF n < 100 THEN 2 ELSE IF n < 1000 THEN 3 ELSE 4

\* C19: a payload without id and with a year is given the id NN/YYYY of its
\* year, NN being one more than the highest sequence number among the persisted
\* ids of that year, 1 when the year has none, written with two digits below
\* 100 and unpadded from 100 on; the ids of other years play no part.
C19_NextIdOfTheYear ==
    \A k \in DOMAIN log :
        log[k].ano > 0 =>
            log[k].id = OfferId(NextNumber(log[k].ano), log[k].ano,
                                WrittenWidth(NextNumber(log[k].ano)))

\* 99/2024 and 150/2023 are persisted and a payload of 2024 is given 100/2024
C19_Witness ==
    /\ \E i \in DOMAIN items : items[i].id = OfferId(99, 2024, 2)
    /\ \E i \in DOMAIN items : items[i].id = OfferId(150, 2023, 3)
    /\ log = <<[ano |-> 2024, id |-> OfferId(100, 2024, 3)]>>

-----------------------------------------------------------------------------
(* C20 *)

\* the persisted offerings have pairwise distinct ids
DistinctIds(list) == \A i, j \in DOMAIN list : i # j => list[i].id # list[j].id

\* C20: after every create_schedule, validated update_schedule and
\* delete_schedule call the persisted offerings have pairwise distinct ids, and
\* a create whose id equals a persisted id is rejected and persists nothing.
C20_IdsStayDistinct ==
    [][/\ DistinctIds(items')
       /\ (/\ last'.op = "create"
           /\ \E i \in DOMAIN items : items[i].id = last'.cand.id)
          => (last'.err # OK /\ items' = items)]_vars

\* two offerings are persisted and a create that names the id of one of them
\* has just been rejected for it
C20_Witness ==
    /\ Len(items) = 2
    /\ last.op = "create"
    /\ last.err = "duplicate_id"
    /\ \E i \in DOMAIN items : items[i].id = last.cand.id

-----------------------------------------------------------------------------
(* Instructor normalisation on its own: _normalize_instructors applied to   *)
(* the instructor fields a caller can send                                  *)

MaxListed == 3

\* the primary a caller declares: none, blank, or an id, also written with blanks
DeclaredPrimaries == {Absent, "", " ", "I1", " I1 ", "I2"}

\* the lists a caller submits
SubmittedLists ==
    UNION {[1..n -> {"", "I1", " I1 ", "I2", "I3"}] : n \in 0..MaxListed}

InitNormalize ==
    /\ instructors = InstructorsFile
    /\ avail = <<>>
    /\ items = <<>>
    /\ last = NoCall
    /\ Idle

\* _normalize_instructors(payload), as create_schedule and update_schedule call it
Normalize(instrutor_id, instrutor_ids) ==
    /\ log = <<>>
    /\ LET payload == [BasePayload EXCEPT !.instrutor_id = instrutor_id,
                                          !.instrutor_ids = instrutor_ids]
       IN  log' = <<[payload |-> payload, normalized |-> _normalize_instructors(payload)]>>
    /\ UNCHANGED <<items, instructors, avail, last, pc, mem, req, res, calc>>

NextNormalize ==
    \E instrutor_id \in DeclaredPrimaries, instrutor_ids \in SubmittedLists :
        Normalize(instrutor_id, instrutor_ids)

SpecNormalize == InitNormalize /\ [][NextNormalize]_vars

-----------------------------------------------------------------------------
(* C21 *)

\* the text is an id: neither absent nor blank
IsId(text) == text # Absent /\ text \notin {"", " "}

\* the id a text stands for, blanks around it removed
IdOf(text) == IF text = " I1 " THEN "I1" ELSE text

\* the caller gives at least one instructor id
GivesAnId(payload) ==
    IsId(payload.instrutor_id) \/ \E i \in DOMAIN payload.instrutor_ids : IsId(payload.instrutor_ids[i])

\* C21: whenever at least one instructor id is given, after the normalisation
\* instrutor_ids has no duplicates and no blank ids, the primary the caller
\* declared in instrutor_id is in instrutor_ids and is its first element, and
\* the stored instrutor_id equals instrutor_ids[0], also when the declared
\* primary was submitted in the list at a later position.
C21_PrimaryPresentAndFirst ==
    \A k \in DOMAIN log :
        LET given == log[k].payload
            stored == log[k].normalized
        IN  GivesAnId(given) =>
                /\ stored.instrutor_ids # <<>>
                /\ \A i, j \in DOMAIN stored.instrutor_ids :
                        i # j => stored.instrutor_ids[i] # stored.instrutor_ids[j]
                /\ \A i \in DOMAIN stored.instrutor_ids :
                        IsId(stored.instrutor_ids[i]) /\ IdOf(stored.instrutor_ids[i]) = stored.instrutor_ids[i]
                /\ stored.instrutor_id = stored.instrutor_ids[1]
                /\ IsId(given.instrutor_id) => stored.instrutor_ids[1] = IdOf(given.instrutor_id)

-----------------------------------------------------------------------------
(* C22 *)

\* the id is that of a collaborator of the instructors file with that role
HasRole(instructor_id, role) ==
    \E i \in DOMAIN instructors : instructors[i].id = instructor_id /\ instructors[i].role = role

\* every reference of the offering resolves, each collaborator in its role
ReferencesResolve(p) ==
    /\ p.curso_id \in COURSES
    /\ p.sala_id \in ROOMS
    /\ p.turno_id \in SHIFTS
    /\ \A i \in DOMAIN p.instrutor_ids : HasRole(p.instrutor_ids[i], "Instrutor")
    /\ HasRole(p.analista_id, "Analista")
    /\ IsId(p.assistente_id) => HasRole(IdOf(p.assistente_id), "Assistente")

\* the offering carries both date keys
HasDateKeys(p) == p.data_inicio.kind # "absent" /\ p.data_fim.kind # "absent"

\* C22: create_schedule and validated update_schedule persist an offering only
\* if its course, room and shift exist, every instructor of its list is a
\* collaborator with role Instrutor, its analyst one with role Analista and a
\* non-blank assistant one with role Assistente; otherwise the call fails with
\* a validation error and writes nothing.
C22_ReferencesResolveOrRejected ==
    [][ /\ last'.op \in {"create", "update"} /\ last.op = "none"
           => /\ items' # items => ReferencesResolve(last'.cand)
              /\ (last'.cand # NoOffering /\ ~ReferencesResolve(last'.cand))
                   => /\ last'.err # OK
                      /\ items' = items
                      /\ HasDateKeys(last'.cand) => ErrorKind(last'.err) = "ValidationError"
        /\ \A i \in DOMAIN items' : ReferencesResolve(items'[i]) ]_vars

\* a create whose instructor is a collaborator with role Analista has been rejected
C22_Witness ==
    /\ last.op = "create"
    /\ last.cand.instrutor_ids = <<"A1">>
    /\ last.cand.curso_id \in COURSES /\ last.cand.sala_id \in ROOMS /\ last.cand.turno_id \in SHIFTS
    /\ last.err = "role"

-----------------------------------------------------------------------------
(* The chronogram editor: update_schedule(schedule_id, updates,              *)
(* validate_schedule=False) on collections stored by create_schedule         *)

\* payloads create_schedule has stored, some written with blanks, repetitions
\* or unpadded dates
StoredPayloads ==
    {BasePayload,
     Payload(AbsentId, "R1", "I1", <<>>, BaseWindow),
     Payload(AbsentId, "R1", "I1", <<>>,
             Window(DateText(12, 2, 2024), DateText(14, 2, 2024), <<"SEG">>, TimeText(8, 0), TimeText(12, 0))),
     [BasePayload EXCEPT !.instrutor_id = " I1 ", !.instrutor_ids = <<"I2", " I1 ", "I2">>,
                         !.data_inicio = DateTextUnpadded(5, 2, 2024)]}

\* the chronogram fields of the record: the model keeps them as one field
ChronogramFields == {"chronogram"}

\* _save_chronogram_distribution: the updates it sends
ChronogramUpdates ==
    {[chronogram |-> "alterado_interno"], [chronogram |-> "alterado_instrutor"]}

\* updates a validated call rejects: a blank required field, an unknown room,
\* the window of another offering, and a blank end date
UncheckedUpdates ==
    {[mes |-> ""],
     [sala_id |-> "R9"],
     BaseWindow,
     [data_fim |-> BlankDate]}

InitChronogram ==
    /\ instructors = InstructorsFile
    /\ avail = AvailabilityFile
    /\ items \in UNION {Buildable(StoredPayloads, n) : n \in 1..MaxExisting}
    /\ last = NoCall
    /\ Idle

\* update_schedule(schedule_id, updates, validate_schedule=False); req keeps
\* the updates of the call
UpdateWithoutValidation(schedule_id, updates) ==
    /\ LET e == UpdateError(items, schedule_id, updates, FALSE)
       IN  /\ items' = IF e = OK THEN UpdateInPlace(items, schedule_id, updates) ELSE items
           /\ last' = [op |-> "update_unvalidated", schedule_id |-> schedule_id,
                       cand |-> IF IndexOf(items, schedule_id) = 0 THEN NoOffering
                                ELSE UpdateMerged(items, schedule_id, updates),
                       err |-> e]
    /\ req' = updates
    /\ UNCHANGED <<instructors, avail, pc, mem, res, log, calc>>

NextChronogram ==
    \E schedule_id \in KnownIds, updates \in ChronogramUpdates \cup UncheckedUpdates :
        UpdateWithoutValidation(schedule_id, updates)

SpecChronogram == InitChronogram /\ [][NextChronogram]_vars

-----------------------------------------------------------------------------
(* C23 *)

\* room, shift, dates, times, weekdays, instructor ids and id
CoreFields ==
    {"sala_id", "turno_id", "data_inicio", "data_fim", "hora_inicio", "hora_fim",
     "dias_execucao", "instrutor_id", "instrutor_ids", "id"}

\* C23: update_schedule with validate_schedule=False runs none of the
\* required-field, reference, conflict, workload or availability checks: it
\* writes the merged record whenever its dates can be read; and when the
\* updates hold only chronogram fields it leaves every core field of the record
\* and every other record unchanged.
C23_UnvalidatedUpdateFrame ==
    [][(last'.op = "update_unvalidated" /\ IndexOf(items, last'.schedule_id) # 0)
       => LET k == IndexOf(items, last'.schedule_id)
          IN  /\ NormalizeDatesError(last'.cand) = OK
                   => /\ last'.err = OK
                      /\ items' = [items EXCEPT ![k] = last'.cand]
              /\ DOMAIN req' \subseteq ChronogramFields
                   => /\ last'.err = OK
                      /\ Len(items') = Len(items)
                      /\ \A f \in CoreFields : items'[k][f] = items[k][f]
                      /\ \A j \in DOMAIN items \ {k} : items'[j] = items[j]]_vars

\* a chronogram update has been written on one of two records, the other of
\* which holds a room that does not exist
C23_Witness ==
    /\ last.op = "update_unvalidated"
    /\ last.err = OK
    /\ DOMAIN req = ChronogramFields
    /\ Len(items) = 2
    /\ \E k \in DOMAIN items :
          /\ items[k].id = last.schedule_id
          /\ items[k].chronogram = "alterado_instrutor"
          /\ \E j \in DOMAIN items \ {k} : items[j].sala_id \notin ROOMS

-----------------------------------------------------------------------------
(* C24 *)

\* the collection without the offerings of that id, the others as they were
AllButId(list, schedule_id) == SelectSeq(list, LAMBDA item : item.id # schedule_id)

\* an offering of that id is persisted
Persisted(list, schedule_id) == \E i \in DOMAIN list : list[i].id = schedule_id

\* C24 as stated: delete_schedule(id) succeeds for every id, with no
\* precondition on the id; after it returns no persisted offering has that id
\* and every other persisted offering is unchanged.
C24_DeleteSucceedsForEveryId ==
    [][(last.op = "none" /\ last'.op = "delete")
       => /\ last'.err = OK
          /\ ~Persisted(items', last'.schedule_id)
          /\ items' = AllButId(items, last'.schedule_id)]_vars

\* C24, amended: delete_schedule(id) removes the offering of a persisted id
\* whatever else the collection holds, after which no persisted offering has
\* that id and every other persisted offering is unchanged; for an id that no
\* persisted offering has it raises a validation error and writes nothing.
C24_DeleteRemovesPersistedId ==
    [][(last.op = "none" /\ last'.op = "delete")
       => IF Persisted(items, last'.schedule_id)
          THEN /\ last'.err = OK
               /\ ~Persisted(items', last'.schedule_id)
               /\ items' = AllButId(items, last'.schedule_id)
          ELSE /\ ErrorKind(last'.err) = "ValidationError"
               /\ items' = items]_vars

\* the first of two offerings has been deleted and the second is still there
C24_Witness ==
    /\ last.op = "delete"
    /\ last.err = OK
    /\ last.schedule_id = OfferId(1, 2024, 2)
    /\ Len(items) = 1
    /\ items[1].id = OfferId(2, 2024, 2)

-----------------------------------------------------------------------------
(* C25 *)

\* C25: every rejection by create_schedule or update_schedule is a
\* ValidationError, also for a payload that lacks a required field, data_inicio
\* and data_fim included, or carries a date or time that cannot be read.
C25_RejectionsAreValidationErrors ==
    (last.op \in {"create", "update"} /\ last.err # OK)
        => ErrorKind(last.err) = "ValidationError"

-----------------------------------------------------------------------------
(* Share tokens of availability records: create_or_refresh_share_token,      *)
(* find_by_share_token and the shared form, with the clock read by           *)
(* datetime.now() counted in days; mem holds the reading of the clock        *)

MaxDay == 4
MaxTokens == 3

\* datetime.now()
now == mem

\* secrets.token_urlsafe(24): a token never issued before
TokenTexts == <<"tk1", "tk2", "tk3", "tk4">>

\* a record as upsert_record first stores it; share_expires_at is <<>> for ""
SharedRecord(instructor_id, year, period_type, period_value) ==
    [id |-> build_record_id(instructor_id, year, period_type, period_value),
     instructor_id |-> instructor_id, year |-> year,
     period_type |-> period_type, period_value |-> period_value, slots |-> <<>>,
     share_token |-> "", share_expires_at |-> <<>>, share_status |-> "nao_enviado"]

\* a variant that never looks at the expiry
find_by_share_token_ignoring_expiry(list, at, token) ==
    LET hits == {i \in DOMAIN list : list[i].share_token = token}
    IN  IF token = "" \/ hits = {} THEN <<>>
        ELSE <<list[CHOOSE i \in hits : \A j \in hits : i <= j]>>

\* find_by_share_token(token) at the time `at`: the record as a sequence of
\* one, or <<>> for None
find_by_share_token(list, at, token) ==
    LET hits == {i \in DOMAIN list : list[i].share_token = token}
    IN  IF token = "" \/ hits = {} THEN <<>>
        ELSE LET item == list[CHOOSE i \in hits : \A j \in hits : i <= j]
             IN  IF item.share_expires_at # <<>> /\ at > item.share_expires_at[1]
                 THEN <<>> ELSE <<item>>

\* create_or_refresh_share_token: OK or the error raised
ShareError(list, record_id) ==
    IF find_item(list, record_id) = <<>> THEN "record_not_found" ELSE OK

\* create_or_refresh_share_token: the list handed to save_items
ShareSaved(list, at, record_id, token, valid_days) ==
    LET days == IF valid_days < 1 THEN 1 ELSE valid_days
        k == CHOOSE i \in DOMAIN list : list[i].id = record_id /\
                 \A j \in DOMAIN list : list[j].id = record_id => i <= j
    IN  [list EXCEPT ![k] = [@ EXCEPT !.share_token = token,
                                      !.share_expires_at = <<at + days>>,
                                      !.share_status = "enviado"]]

NoAnswer == [token |-> "", at |-> 0, found |-> <<>>]

InitShare ==
    /\ items = <<>>
    /\ instructors = InstructorsFile
    /\ avail = <<SharedRecord("I1", 2024, "month", "7"), SharedRecord("I2", 2024, "month", "7")>>
    /\ last = NoCall
    /\ pc = [w \in {} |-> "idle"]
    /\ now = 0
    /\ req = ""
    /\ res = NoAnswer
    /\ log = <<>>
    /\ calc = <<>>

\* the clock moves on by a day
Tick ==
    /\ now < MaxDay
    /\ now' = now + 1
    /\ UNCHANGED <<items, instructors, avail, last, pc, req, res, log, calc>>

\* create_or_refresh_share_token(record_id, token, valid_days) with a token
\* just drawn; log keeps the tokens issued and req the record named
create_or_refresh_share_token(record_id, valid_days) ==
    /\ Len(log) < MaxTokens
    /\ LET token == TokenTexts[Len(log) + 1]
           e == ShareError(avail, record_id)
       IN  /\ avail' = IF e = OK THEN ShareSaved(avail, now, record_id, token, valid_days) ELSE avail
           /\ last' = [op |-> "share", schedule_id |-> AbsentId, cand |-> NoOffering, err |-> e]
           /\ log' = Append(log, token)
    /\ req' = record_id
    /\ UNCHANGED <<items, instructors, pc, mem, res, calc>>

\* availability_instructors_shared: find_by_share_token(token); res keeps the
\* token, the time of the call and what was returned
availability_instructors_shared(token) ==
    /\ res' = [token |-> token, at |-> now, found |-> find_by_share_token(avail, now, token)]
    /\ last' = [op |-> "find", schedule_id |-> AbsentId, cand |-> NoOffering, err |-> OK]
    /\ UNCHANGED <<items, instructors, avail, pc, mem, req, log, calc>>

\* availability_instructors_shared_save: find_by_share_token(token), then
\* upsert_record with source "shared" on the record found
availability_instructors_shared_save(token, slots) ==
    /\ LET found == find_by_share_token(avail, now, token)
       IN  /\ res' = [token |-> token, at |-> now, found |-> found]
           /\ avail' = IF found = <<>> THEN avail
                       ELSE [i \in DOMAIN avail |->
                               IF avail[i].id = found[1].id
                               THEN [avail[i] EXCEPT !.slots = slots, !.share_status = "respondido"]
                               ELSE avail[i]]
    /\ last' = [op |-> "shared_save", schedule_id |-> AbsentId, cand |-> NoOffering, err |-> OK]
    /\ UNCHANGED <<items, instructors, pc, mem, req, log, calc>>

\* the tokens a visitor may present: those issued, none, and one never issued
PresentedTokens == Range(log) \cup {"", "tk9"}

NextShare ==
    \/ Tick
    \/ \E record_id \in {avail[i].id : i \in DOMAIN avail} \cup {"I9|2024|month|7"},
          valid_days \in {0, 1, 2} :
           create_or_refresh_share_token(record_id, valid_days)
    \/ \E token \in PresentedTokens : availability_instructors_shared(token)
    \/ \E token \in PresentedTokens, slots \in {<<>>, <<Slot("SEG", "T2")>>} :
           availability_instructors_shared_save(token, slots)

SpecShare == InitShare /\ [][NextShare]_vars

-----------------------------------------------------------------------------
(* C26 *)

\* the record holds a token whose expiry is past at that time
Expired(record, at) ==
    /\ record.share_token # ""
    /\ record.share_expires_at # <<>>
    /\ at > record.share_expires_at[1]

\* C26: find_by_share_token returns the record of a token set by
\* create_or_refresh_share_token only while the time is not past its
\* share_expires_at; once the time is past the expiry the token resolves to no
\* record in every later state, until create_or_refresh_share_token is called
\* again for that record.
C26_ShareTokenExpires ==
    [][ /\ \A i \in DOMAIN avail' :
              avail'[i].share_token # ""
                 => find_by_share_token(avail', now', avail'[i].share_token)
                      = IF now' > avail'[i].share_expires_at[1] THEN <<>> ELSE <<avail'[i]>>
        /\ (res'.found # <<>>)
              => /\ res'.found[1].share_token = res'.token
                 /\ res'.at <= res'.found[1].share_expires_at[1]
        /\ \A i \in DOMAIN avail :
              (Expired(avail[i], now) /\ ~(Len(log') > Len(log) /\ req' = avail[i].id))
                 => /\ Expired(avail'[i], now')
                    /\ avail'[i].share_token = avail[i].share_token
                    /\ find_by_share_token(avail', now', avail[i].share_token) = <<>> ]_vars

\* a visitor presented a token after its expiry and was given no record
C26_Witness ==
    /\ last.op = "find"
    /\ res.found = <<>>
    /\ \E i \in DOMAIN avail :
          /\ avail[i].share_token = res.token
          /\ Expired(avail[i], res.at)
          /\ now > res.at

-----------------------------------------------------------------------------
(* C27 *)

\* the instructors and qualifying months whose record fails the comparison of
\* the validator
FailingAt(p) ==
    {v \in Range(p.instrutor_ids) \X QualifyingMonths(p) :
        \E i \in RecordUsed(v[1], v[2][1], v[2][2]) : MissingSlots(p, avail[i]) # {}}

\* a record is found for an instructor of the candidate and a spanned month
\* that has no date on a selected weekday, and it lacks a required slot
LacksInSkippedMonth(p) ==
    \E instructor_id \in Range(p.instrutor_ids) :
        \E ym \in SpannedMonths(p) \ QualifyingMonths(p) :
            \E i \in RecordUsed(instructor_id, ym[1], ym[2]) : Lacking(avail[i], p) # {}

\* C27: the availability check looks at an instructor's record only for the
\* months that hold a date on a selected weekday inside the candidate's range;
\* a spanned month with no such date is skipped, so a record for that month
\* that lacks the required slots never causes the rejection.
C27_MonthsWithoutClassDaySkipped ==
    [][last'.op = "create"
        => /\ last'.err = "availability"
                => <<FirstFailingVisit(last'.cand).range.year,
                     FirstFailingVisit(last'.cand).range.month>> \in QualifyingMonths(last'.cand)
           /\ (ReachesAvailabilityCheck(items, last'.cand) /\ FailingAt(last'.cand) = {})
                => last'.err # "availability"]_vars

\* an offering from Wednesday 31/07/2024 to 09/08/2024 on Mondays has been
\* accepted although the July record of its instructor lacks the Monday slot
C27_Witness ==
    /\ last.op = "create"
    /\ last.err = OK
    /\ SpannedMonths(last.cand) = {<<2024, 7>>, <<2024, 8>>}
    /\ QualifyingMonths(last.cand) = {<<2024, 8>>}
    /\ LacksInSkippedMonth(last.cand)

-----------------------------------------------------------------------------
(* Two writers, each in one create_schedule, validated update_schedule or    *)
(* delete_schedule call, interleaved at load_items and save_items            *)

\* the offerings the writers create and the file may hold
RacePayloads ==
    {Payload(AbsentId, r, c.instrutor_id, c.instrutor_ids, w) :
        r \in ROOMS, c \in InstructorChoices,
        w \in {BaseWindow,
               Window(DateText(5, 2, 2024), DateText(7, 2, 2024), <<"SEG">>, TimeText(12, 0), TimeText(16, 0))}}

\* the updates the writers send
RaceUpdates ==
    {[sala_id |-> r] : r \in ROOMS}
    \cup {[instrutor_id |-> "I1", instrutor_ids |-> <<"I1">>],
          [instrutor_id |-> "I2", instrutor_ids |-> <<"I2">>],
          [hora_inicio |-> TimeText(8, 0), hora_fim |-> TimeText(12, 0)],
          [hora_inicio |-> TimeText(12, 0), hora_fim |-> TimeText(16, 0)]}

InitRaceAll ==
    /\ instructors = InstructorsFile
    /\ avail = AvailabilityFile
    /\ items \in UNION {Buildable(RacePayloads, n) : n \in 0..MaxExisting}
    /\ last = NoCall
    /\ pc = [w \in Writers |-> "idle"]
    /\ mem = [w \in Writers |-> [read |-> <<>>, write |-> <<>>]]
    /\ req = [w \in Writers |-> NoOffering]
    /\ res = [w \in Writers |-> Pending]
    /\ log = <<>>
    /\ calc = <<>>

\* update_schedule, lines 71-82: load_items and everything the call does on its
\* own copy of the list; a failed validation ends the call
LoadUpdate(w, schedule_id, updates) ==
    /\ pc[w] = "idle"
    /\ LET e == UpdateError(items, schedule_id, updates, TRUE)
       IN  /\ req' = [req EXCEPT ![w] = IF IndexOf(items, schedule_id) = 0 THEN NoOffering
                                        ELSE UpdateMerged(items, schedule_id, updates)]
           /\ mem' = [mem EXCEPT ![w] =
                        [read |-> items,
                         write |-> IF e = OK THEN UpdateInPlace(items, schedule_id, updates) ELSE items]]
           /\ pc' = [pc EXCEPT ![w] = IF e = OK THEN "loaded" ELSE "done"]
           /\ res' = [res EXCEPT ![w] = IF e = OK THEN Pending ELSE e]
    /\ UNCHANGED <<items, instructors, avail, last, log, calc>>

\* delete_schedule, lines 88-92: load_items, the lookup and the removal on the
\* writer's own copy of the list
LoadDelete(w, schedule_id) ==
    /\ pc[w] = "idle"
    /\ LET e == DeleteError(items, schedule_id)
       IN  /\ mem' = [mem EXCEPT ![w] =
                        [read |-> items,
                         write |-> IF e = OK THEN DeleteSaved(items, schedule_id) ELSE items]]
           /\ pc' = [pc EXCEPT ![w] = IF e = OK THEN "loaded" ELSE "done"]
           /\ res' = [res EXCEPT ![w] = IF e = OK THEN Pending ELSE e]
    /\ UNCHANGED <<items, instructors, avail, last, req, log, calc>>

NextRaceAll ==
    \/ \E w \in Writers, payload \in RacePayloads : Load(w, payload)
    \/ \E w \in Writers, schedule_id \in KnownIds, updates \in RaceUpdates :
           LoadUpdate(w, schedule_id, updates)
    \/ \E w \in Writers, schedule_id \in KnownIds : LoadDelete(w, schedule_id)
    \/ \E w \in Writers : Save(w)

SpecRaceAll == InitRaceAll /\ [][NextRaceAll]_vars

-----------------------------------------------------------------------------
(* C28 *)

\* C28: under any interleaving of concurrent create_schedule, validated
\* update_schedule and delete_schedule calls, every persisted state of the
\* collection is free of room and instructor double-bookings and has pairwise
\* distinct ids; a race loses an update but persists no double-booking.
C28_RacesPersistNoDoubleBooking ==
    /\ \A i, j \in DOMAIN items :
          i # j => ~DoubleBooked(items[i], items[j]) /\ items[i].id # items[j].id
    /\ \A w \in Writers :
          pc[w] = "loaded" =>
             \A i, j \in DOMAIN mem[w].write :
                 i # j => /\ ~DoubleBooked(mem[w].write[i], mem[w].write[j])
                          /\ mem[w].write[i].id # mem[w].write[j].id

\* an update and a create that would double-book each other were validated on
\* the same read of the file and both written: the file holds the second only
C28_Witness ==
    /\ \A w \in Writers : pc[w] = "done" /\ res[w] = OK
    /\ mem["w1"].read = mem["w2"].read
    /\ log = <<"w1", "w2">>
    /\ Persisted(mem["w1"].read, req["w1"].id)
    /\ ~Persisted(mem["w2"].read, req["w2"].id)
    /\ DoubleBooked(req["w1"], req["w2"])
    /\ items = mem["w2"].write
    /\ req["w1"] \notin Range(items)

-----------------------------------------------------------------------------
(* C29 *)

\* the listed instructors over their cap none of whose persisted offerings
\* shares a day of its date range with the candidate's
OverCapOnOtherDates(list, p) ==
    {instructor_id \in OverCap(list, p) :
        /\ PersistedMinutes(list, instructor_id) > 0
        /\ \A i \in DOMAIN list :
              instructor_id \in Range(list[i].instrutor_ids) => ~RangesOverlap(list[i], p)}

\* C29: the workload sum of an instructor takes the weekly hours of every
\* persisted offering the instructor is on, whatever their dates: a candidate
\* whose date range is disjoint from all of them is still rejected when the sum
\* with the candidate exceeds the cap.
C29_WorkloadIgnoresDates ==
    [][(/\ last'.op = "create"
        /\ InOrderApartFromWorkload(items, last'.cand)
        /\ OverCapOnOtherDates(items, last'.cand) # {})
       => (last'.err = "workload" /\ items' = items)]_vars

\* a create for I1 in the week of 12/02/2024 has been rejected for the workload
\* while all persisted offerings of I1 are of the week of 05/02/2024
C29_Witness ==
    /\ last.op = "create"
    /\ last.err = "workload"
    /\ Range(last.cand.instrutor_ids) = {"I1"}
    /\ OverCapOnOtherDates(items, last.cand) = {"I1"}
    /\ ContributedMinutes(last.cand) <= CapMinutes("I1")[1]

-----------------------------------------------------------------------------
(* Ids after deletions: create_schedule on payloads without id and          *)
(* delete_schedule, one call after another; log keeps the last offering     *)
(* deleted and the id given by the next create of its year                  *)

MaxOfferings == 3

\* payloads without id of two years, on different Mondays
ReusePayloads ==
    {[Payload(AbsentId, "R1", "I2", <<>>, MondayWindow(k)) EXCEPT !.ano = ano] :
        k \in 1..MaxOfferings, ano \in {2023, 2024}}

InitReuse ==
    /\ items = <<>>
    /\ instructors = InstructorsFile
    /\ avail = <<>>
    /\ last = NoCall
    /\ Idle

\* the highest sequence number of the year in the list, 0 when it has none
HighestOfYear(list, year) == SetMax(SeqsOfYear(list, year))

\* create_schedule(payload) on a payload without id
CreateWithoutId(payload) ==
    /\ LET e == CreateError(items, payload)
           p == CreatePrepared(items, payload)
       IN  /\ p.id.seq <= MaxSeq
           /\ e # OK \/ Len(items) < MaxOfferings
           /\ items' = IF e = OK THEN Append(items, p) ELSE items
           /\ last' = [op |-> "create", schedule_id |-> AbsentId, cand |-> p, err |-> e]
           /\ log' = IF e = OK /\ log # <<>> /\ log[1].next = AbsentId /\ p.id.year = log[1].id.year
                     THEN <<[log[1] EXCEPT !.next = p.id]>>
                     ELSE log
    /\ UNCHANGED <<instructors, avail, pc, mem, req, res, calc>>

\* delete_schedule(schedule_id)
DeleteOffering(schedule_id) ==
    /\ LET e == DeleteError(items, schedule_id)
           after == DeleteSaved(items, schedule_id)
       IN  /\ items' = IF e = OK THEN after ELSE items
           /\ last' = [op |-> "delete", schedule_id |-> schedule_id, cand |-> NoOffering, err |-> e]
           /\ log' = IF e = OK
                     THEN <<[id |-> schedule_id,
                             highest |-> schedule_id.seq = HighestOfYear(items, schedule_id.year),
                             below |-> HighestOfYear(after, schedule_id.year),
                             next |-> AbsentId]>>
                     ELSE log
    /\ UNCHANGED <<instructors, avail, pc, mem, req, res, calc>>

NextReuse ==
    \/ \E payload \in ReusePayloads : CreateWithoutId(payload)
    \/ \E schedule_id \in KnownIds : DeleteOffering(schedule_id)

SpecReuse == InitReuse /\ [][NextReuse]_vars

-----------------------------------------------------------------------------
(* C30 *)

\* the next create of the year of the last deleted offering has been given an id
NextAssigned == log # <<>> /\ log[1].next # AbsentId

\* C30 as stated: when the offering with the highest sequence number of a year
\* is deleted, the next create_schedule without id for that year assigns the id
\* the deleted offering had.
C30_HighestDeletedIdReused ==
    (NextAssigned /\ log[1].highest) => log[1].next = log[1].id

\* C30, amended: the next create_schedule without id for the year of a deleted
\* offering assigns one more than the highest sequence number left in that
\* year: the id of the deleted offering when that was the highest and stood
\* directly above the highest one left (or was 01 with none left), a lower id when
\* numbers below it were missing, and a higher id when the deleted offering was
\* not the highest; an id is never assigned while the same or a higher number
\* of its year is persisted.
C30_NextIdFollowsHighestLeft ==
    /\ NextAssigned
          => /\ log[1].next.year = log[1].id.year
             /\ log[1].next.seq = log[1].below + 1
             /\ (log[1].highest /\ log[1].id.seq = log[1].below + 1) => log[1].next = log[1].id
             /\ (log[1].highest /\ log[1].id.seq > log[1].below + 1) => log[1].next.seq < log[1].id.seq
             /\ ~log[1].highest => log[1].next.seq > log[1].id.seq
    /\ (last.op = "create" /\ last.err = OK)
          => \A i \in DOMAIN items :
                (items[i].id.year = last.cand.id.year /\ items[i].id.seq >= last.cand.id.seq)
                    => items[i] = last.cand /\ i = Len(items)

\* 02/2024 was deleted while 01/2024 stayed, and the next create of 2024 has
\* been given 02/2024 again
C30_Witness ==
    /\ NextAssigned
    /\ log[1].highest
    /\ log[1].id = OfferId(2, 2024, 2)
    /\ log[1].below = 1
    /\ log[1].next = log[1].id
    /\ last.op = "create"
    /\ last.cand.id = log[1].id

====
